---- MODULE Spec2Model ----
(***************************************************************************)
(* Model of estrai_flussi_cassa.py: the 'Escludi' filter gate, the         *)
(* reconstruction of the category -> subcategory hierarchy of a pivot      *)
(* sheet (estrai_dati_categoria) and the monthly aggregation.              *)
(*                                                                         *)
(* Amounts are exact multiples of the unit 0.005, so the tolerance 0.01 of  *)
(* the source is Tol = 2 units and differences below, equal to and above   *)
(* the tolerance are all representable; the arithmetic is exact.  Cursors  *)
(* i and j are the 0-based indices of the source; rows_data[i] of the      *)
(* source is rows_data[i + 1] here.  origine and esito are history         *)
(* variables: the source row and category row of every entry, and the way  *)
(* the last look-ahead loop was left.                                      *)
(***************************************************************************)
EXTENDS Integers, Sequences, FiniteSets, TLC

\* ------------------------------------------------------------------ bounds
MaxRows == 4
MaxAmt == 3
MaxSheets == 2
MaxTab == 4
MaxFiltro == 6

\* ------------------------------------------------------- program constants
Tol == 2

\* the walk of estrai_dati_categoria, step by step
VARIABLES rows_data, i, j, somma_sotto, sottocategorie, risultati,
          origine, esito, pc
\* the run of main
VARIABLES wb, fase, pivot_sheets, sheet_idx, errori, warnings, dati_consolidati, origine_dati,
          riepilogo_mensile, files, exit_code

\* one sheet under verifica_filtro_escludi or estrai_dati_categoria
VARIABLES sheet_df, hdr_row, gran_totale, ok, messaggio

walkVars == <<rows_data, i, j, somma_sotto, sottocategorie, risultati,
              origine, esito, pc>>
mainVars == <<wb, fase, pivot_sheets, sheet_idx, errori, warnings, dati_consolidati, origine_dati,
              riepilogo_mensile, files, exit_code>>
sheetVars == <<sheet_df, hdr_row, gran_totale, ok, messaggio>>
vars == <<walkVars, mainVars, sheetVars>>

Abs(x) == IF x < 0 THEN -x ELSE x

\* Text is a sequence of one-character strings.
Trattino == <<"-">>
NomeVoce == <<"V", "o", "c", "e">>
\* the null subcategory (None); no retained label is empty (line 150)
Nessuna == <<>>

Nomi == {Trattino, NomeVoce}
Importi == (-MaxAmt)..MaxAmt

\* ------------------------------------------------------------------- text
Cifre == <<"0", "1", "2", "3", "4", "5", "6", "7", "8", "9">>
Maiuscole == <<"A", "B", "C", "D", "E", "F", "G", "H", "I", "J", "K", "L",
               "M", "N", "O", "P", "Q", "R", "S", "T", "U", "V", "W", "X",
               "Y", "Z">>
Minuscole == <<"a", "b", "c", "d", "e", "f", "g", "h", "i", "j", "k", "l",
               "m", "n", "o", "p", "q", "r", "s", "t", "u", "v", "w", "x",
               "y", "z">>
\* the characters of the model in code-point order
Caratteri == <<" ", "'", "(", ")", "-", ".", "/">> \o Cifre \o Maiuscole \o Minuscole

PosIn(c, seq) == CHOOSE n \in 1..Len(seq) : seq[n] = c
IsIn(c, seq) == \E n \in 1..Len(seq) : seq[n] = c
InsiemeCaratteri == {Caratteri[n] : n \in 1..Len(Caratteri)}
InsiemeCifre == {Cifre[n] : n \in 1..Len(Cifre)}
\* ord(c), up to the gaps between the characters of the model
TabellaOrd == [c \in InsiemeCaratteri |-> PosIn(c, Caratteri)]
Ord(c) == TabellaOrd[c]
IsDigit(c) == c \in InsiemeCifre
DigitVal(c) == PosIn(c, Cifre) - 1

\* str.lower()
TabellaLower ==
    [c \in InsiemeCaratteri |->
        IF IsIn(c, Maiuscole) THEN Minuscole[PosIn(c, Maiuscole)] ELSE c]
LowerChar(c) == TabellaLower[c]
Lower(t) == [n \in 1..Len(t) |-> LowerChar(t[n])]

\* str.strip()
RECURSIVE LStrip(_)
LStrip(t) == IF t # <<>> /\ Head(t) = " " THEN LStrip(Tail(t)) ELSE t
RECURSIVE RStrip(_)
RStrip(t) ==
    IF t # <<>> /\ t[Len(t)] = " " THEN RStrip(SubSeq(t, 1, Len(t) - 1)) ELSE t
Strip(t) == RStrip(LStrip(t))

\* sub in t
Contains(sub, t) ==
    \E p \in 1..(Len(t) - Len(sub) + 1) : SubSeq(t, p, p + Len(sub) - 1) = sub

\* t.startswith(pre)
StartsWith(t, pre) == Len(t) >= Len(pre) /\ SubSeq(t, 1, Len(pre)) = pre

\* t < u for Python strings: lexicographic by code point
RECURSIVE LexLess(_, _)
LexLess(t, u) ==
    IF u = <<>> THEN FALSE
    ELSE IF t = <<>> THEN TRUE
    ELSE IF Head(t) # Head(u) THEN Ord(Head(t)) < Ord(Head(u))
    ELSE LexLess(Tail(t), Tail(u))

\* the value of a sequence of decimal digits
RECURSIVE DigitsVal(_)
DigitsVal(t) ==
    IF t = <<>> THEN 0
    ELSE 10 * DigitsVal(SubSeq(t, 1, Len(t) - 1)) + DigitVal(t[Len(t)])

AllDigits(t) == \A k \in 1..Len(t) : IsDigit(t[k])

\* the decimal digits of a natural number, at least width of them
RECURSIVE DigitsOf(_, _)
DigitsOf(n, width) ==
    IF n < 10 /\ width <= 1 THEN <<Cifre[n + 1]>>
    ELSE Append(DigitsOf(n \div 10, width - 1), Cifre[(n % 10) + 1])

\* ------------------------------------------------------------------ cells
\* A cell of a sheet read by pd.read_excel(header=None): empty (NaN), text
\* or a number. Numbers are amounts in units of 0.005.
Vuota == [t |-> "nan", s |-> <<>>, n |-> 0]
Testo(x) == [t |-> "str", s |-> x, n |-> 0]
Numero(x) == [t |-> "num", s |-> <<>>, n |-> x]

\* pd.notna(v)
NotNa(c) == c.t # "nan"

\* units of 0.005 in 1.00
UnitaPerUno == 200

\* str(v) of a number: sign, integer part, a point and the decimals without
\* trailing zeros, at least one
RECURSIVE SenzaZeriFinali(_)
SenzaZeriFinali(d) ==
    IF Len(d) > 1 /\ d[Len(d)] = "0"
    THEN SenzaZeriFinali(SubSeq(d, 1, Len(d) - 1)) ELSE d
StrNum(x) ==
    (IF x < 0 THEN <<"-">> ELSE <<>>)
        \o DigitsOf(Abs(x) \div UnitaPerUno, 1) \o <<".">>
        \o SenzaZeriFinali(
             DigitsOf(((Abs(x) % UnitaPerUno) * 1000) \div UnitaPerUno, 3))
StrOf(c) ==
    IF c.t = "str" THEN c.s
    ELSE IF c.t = "num" THEN StrNum(c.n)
    ELSE <<"n", "a", "n">>

\* float(v), lines 161-164: a number is itself; a text parses when, stripped,
\* it is an optional sign and decimal digits; [ok |-> FALSE] is ValueError
FloatOf(c) ==
    IF c.t = "num" THEN [ok |-> TRUE, v |-> c.n]
    ELSE LET x == Strip(c.s)
             neg == x # <<>> /\ Head(x) = "-"
             d == IF x # <<>> /\ Head(x) \in {"-", "+"} THEN Tail(x) ELSE x
         IN IF d # <<>> /\ AllDigits(d)
            THEN [ok |-> TRUE,
                  v |-> (IF neg THEN -1 ELSE 1) * DigitsVal(d) * UnitaPerUno]
            ELSE [ok |-> FALSE, v |-> 0]

\* ---------------------------------------------- estrai_dati_categoria: walk
\* mutant of IsTerminatore: the amounts compared for exact equality
IsTerminatoreEsatto(next_row, importo_categoria) ==
    next_row.nome = Trattino /\ next_row.importo = importo_categoria

\* line 200: a row labelled "-" with the category's own amount
IsTerminatore(next_row, importo_categoria) ==
    next_row.nome = Trattino /\ Abs(next_row.importo - importo_categoria) < Tol

\* line 211: the running sum matches the category amount
SommaCoincide(somma, importo_categoria) ==
    Abs(somma - importo_categoria) < Tol

\* mutant of AncoraDentro: the amounts compared with their signs
AncoraDentroConSegno(somma, importo_categoria) ==
    somma <= importo_categoria + Tol

\* line 215: the running sum has not yet gone beyond the category amount
AncoraDentro(somma, importo_categoria) ==
    Abs(somma) <= Abs(importo_categoria) + Tol

\* lines 223-226
Tipo(importo_categoria) ==
    IF importo_categoria >= 0 THEN "entrata" ELSE "uscita"

\* The walk as a record, so that the same steps serve the step-by-step
\* specification and the whole function used by elabora_tutti_i_pivot.
StatoIniziale(rows) ==
    [rows_data |-> rows, i |-> 0, j |-> 0, somma_sotto |-> 0,
     sottocategorie |-> <<>>, risultati |-> <<>>, origine |-> <<>>,
     esito |-> "nessuno", pc |-> "outer"]

Current(w) == w.rows_data[w.i + 1]
NextRow(w) == w.rows_data[w.j + 1]

\* lines 187-189
SaltaTrattino(w) == [w EXCEPT !.i = w.i + 1]

\* lines 192-194
IniziaRicerca(w) ==
    [w EXCEPT !.sottocategorie = <<>>, !.j = w.i + 1, !.somma_sotto = 0,
              !.esito = "nessuno", !.pc = "inner"]

\* mutant of FineTerminatore: the "-" row is kept among the subcategories
FineTerminatoreAccumula(w) ==
    [w EXCEPT !.sottocategorie = Append(w.sottocategorie, NextRow(w)),
              !.j = w.j + 1, !.esito = "terminatore", !.pc = "emit"]

\* lines 200-203
FineTerminatore(w) ==
    [w EXCEPT !.j = w.j + 1, !.esito = "terminatore", !.pc = "emit"]

\* mutant of FineCoincide: the matching row is not appended
FineCoincideSenzaUltima(w) ==
    [w EXCEPT !.somma_sotto = w.somma_sotto + NextRow(w).importo,
              !.j = w.j + 1, !.esito = "coincide", !.pc = "emit"]

\* lines 207, 211-214
FineCoincide(w) ==
    [w EXCEPT !.somma_sotto = w.somma_sotto + NextRow(w).importo,
              !.sottocategorie = Append(w.sottocategorie, NextRow(w)),
              !.j = w.j + 1, !.esito = "coincide", !.pc = "emit"]

\* mutant of Accumula: the look-ahead cursor is not advanced
AccumulaSenzaAvanzare(w) ==
    [w EXCEPT !.somma_sotto = w.somma_sotto + NextRow(w).importo,
              !.sottocategorie = Append(w.sottocategorie, NextRow(w))]

\* lines 207, 215-217
Accumula(w) ==
    [w EXCEPT !.somma_sotto = w.somma_sotto + NextRow(w).importo,
              !.sottocategorie = Append(w.sottocategorie, NextRow(w)),
              !.j = w.j + 1]

\* mutant of FineOltre: the overshooting row is consumed
FineOltreConsuma(w) ==
    [w EXCEPT !.somma_sotto = w.somma_sotto + NextRow(w).importo,
              !.j = w.j + 1, !.esito = "oltre", !.pc = "emit"]

\* lines 207, 218-220
FineOltre(w) ==
    [w EXCEPT !.somma_sotto = w.somma_sotto + NextRow(w).importo,
              !.esito = "oltre", !.pc = "emit"]

\* line 196, loop condition false
FineRighe(w) == [w EXCEPT !.esito = "esaurite", !.pc = "emit"]

\* mutant of SenzaTrattino: the same rows, last first
RECURSIVE SenzaTrattinoInverso(_)
SenzaTrattinoInverso(s) ==
    IF s = <<>> THEN <<>>
    ELSE IF Head(s).nome # Trattino
         THEN SenzaTrattinoInverso(Tail(s)) \o <<Head(s)>>
         ELSE SenzaTrattinoInverso(Tail(s))

\* the rows of a sequence whose label is not "-", in order (line 231)
RECURSIVE SenzaTrattino(_)
SenzaTrattino(s) ==
    IF s = <<>> THEN <<>>
    ELSE IF Head(s).nome # Trattino
         THEN <<Head(s)>> \o SenzaTrattino(Tail(s))
         ELSE SenzaTrattino(Tail(s))

\* lines 232-237
VoceSotto(categoria_corrente, sotto, tipo) ==
    [categoria |-> categoria_corrente, sottocategoria |-> sotto.nome,
     importo |-> sotto.importo, tipo |-> tipo]

\* lines 241-246
VocePiatta(categoria_corrente, importo_categoria, tipo) ==
    [categoria |-> categoria_corrente, sottocategoria |-> Nessuna,
     importo |-> importo_categoria, tipo |-> tipo]

\* mutant of EmettiSotto: each entry classified by its own amount
EmettiSottoSegnoRiga(w) ==
    LET cat == Current(w)
        emesse == SenzaTrattino(w.sottocategorie)
    IN [w EXCEPT
          !.risultati = w.risultati \o
              [k \in 1..Len(emesse) |->
                  VoceSotto(cat.nome, emesse[k], Tipo(emesse[k].importo))],
          !.origine = w.origine \o
              [k \in 1..Len(emesse) |->
                  [riga |-> emesse[k].idx, cat |-> cat.idx]],
          !.i = w.j, !.pc = "outer"]

\* mutant of EmettiSotto: the category cursor moves on by one row only
EmettiSottoAvanzaUno(w) ==
    LET cat == Current(w)
        tipo == Tipo(cat.importo)
        emesse == SenzaTrattino(w.sottocategorie)
    IN [w EXCEPT
          !.risultati = w.risultati \o
              [k \in 1..Len(emesse) |-> VoceSotto(cat.nome, emesse[k], tipo)],
          !.origine = w.origine \o
              [k \in 1..Len(emesse) |->
                  [riga |-> emesse[k].idx, cat |-> cat.idx]],
          !.i = w.i + 1, !.pc = "outer"]

\* lines 229-238
EmettiSotto(w) ==
    LET cat == Current(w)
        tipo == Tipo(cat.importo)
        emesse == SenzaTrattino(w.sottocategorie)
    IN [w EXCEPT
          !.risultati = w.risultati \o
              [k \in 1..Len(emesse) |-> VoceSotto(cat.nome, emesse[k], tipo)],
          !.origine = w.origine \o
              [k \in 1..Len(emesse) |->
                  [riga |-> emesse[k].idx, cat |-> cat.idx]],
          !.i = w.j, !.pc = "outer"]

\* mutant of EmettiPiatta: the flat entry carries the running sum
EmettiPiattaSomma(w) ==
    LET cat == Current(w)
    IN [w EXCEPT
          !.risultati = Append(w.risultati,
              VocePiatta(cat.nome, w.somma_sotto, Tipo(cat.importo))),
          !.origine = Append(w.origine, [riga |-> cat.idx, cat |-> cat.idx]),
          !.i = w.i + 1, !.pc = "outer"]

\* lines 239-247
EmettiPiatta(w) ==
    LET cat == Current(w)
    IN [w EXCEPT
          !.risultati = Append(w.risultati,
              VocePiatta(cat.nome, cat.importo, Tipo(cat.importo))),
          !.origine = Append(w.origine, [riga |-> cat.idx, cat |-> cat.idx]),
          !.i = w.i + 1, !.pc = "outer"]

\* line 249
Ritorna(w) == [w EXCEPT !.pc = "done"]

\* guards of the branches, in the order the source tests them
GSaltaTrattino(w) ==
    w.pc = "outer" /\ w.i < Len(w.rows_data) /\ Current(w).nome = Trattino
GIniziaRicerca(w) ==
    w.pc = "outer" /\ w.i < Len(w.rows_data) /\ Current(w).nome # Trattino
GRitorna(w) == w.pc = "outer" /\ w.i >= Len(w.rows_data)
GFineRighe(w) == w.pc = "inner" /\ w.j >= Len(w.rows_data)
GFineTerminatore(w) ==
    /\ w.pc = "inner" /\ w.j < Len(w.rows_data)
    /\ IsTerminatore(NextRow(w), Current(w).importo)
GFineCoincide(w) ==
    /\ w.pc = "inner" /\ w.j < Len(w.rows_data)
    /\ ~IsTerminatore(NextRow(w), Current(w).importo)
    /\ SommaCoincide(w.somma_sotto + NextRow(w).importo, Current(w).importo)
GAccumula(w) ==
    /\ w.pc = "inner" /\ w.j < Len(w.rows_data)
    /\ ~IsTerminatore(NextRow(w), Current(w).importo)
    /\ ~SommaCoincide(w.somma_sotto + NextRow(w).importo, Current(w).importo)
    /\ AncoraDentro(w.somma_sotto + NextRow(w).importo, Current(w).importo)
GFineOltre(w) ==
    /\ w.pc = "inner" /\ w.j < Len(w.rows_data)
    /\ ~IsTerminatore(NextRow(w), Current(w).importo)
    /\ ~SommaCoincide(w.somma_sotto + NextRow(w).importo, Current(w).importo)
    /\ ~AncoraDentro(w.somma_sotto + NextRow(w).importo, Current(w).importo)
GEmettiSotto(w) == w.pc = "emit" /\ w.sottocategorie # <<>>
GEmettiPiatta(w) == w.pc = "emit" /\ w.sottocategorie = <<>>

\* one step of the walk of lines 180-249
PassoWalk(w) ==
    CASE GSaltaTrattino(w) -> SaltaTrattino(w)
      [] GIniziaRicerca(w) -> IniziaRicerca(w)
      [] GRitorna(w) -> Ritorna(w)
      [] GFineRighe(w) -> FineRighe(w)
      [] GFineTerminatore(w) -> FineTerminatore(w)
      [] GFineCoincide(w) -> FineCoincide(w)
      [] GAccumula(w) -> Accumula(w)
      [] GFineOltre(w) -> FineOltre(w)
      [] GEmettiSotto(w) -> EmettiSotto(w)
      [] GEmettiPiatta(w) -> EmettiPiatta(w)

\* the whole walk: lines 180-249 from rows_data to risultati
RECURSIVE EseguiWalk(_)
EseguiWalk(w) == IF w.pc = "done" THEN w ELSE EseguiWalk(PassoWalk(w))

\* ------------------------------------------------ verifica_filtro_escludi
Esclud == <<"e", "s", "c", "l", "u", "d">>
Blank == <<"(", "b", "l", "a", "n", "k", ")">>

\* line 32
IsMarker(c) == NotNa(c) /\ Contains(Esclud, Lower(StrOf(c)))

\* mutant of RigheScandite: every row is scanned
RigheScanditeTutte(df) == Len(df)

\* line 29: the rows scanned
RigheScandite(df) == IF Len(df) < 5 THEN Len(df) ELSE 5

\* the cells of the scanned rows that hold the marker, as <<row, column>>
Marcatori(df) ==
    {rc \in (1..RigheScandite(df)) \X (1..(IF df = <<>> THEN 0 ELSE Len(df[1]))) :
        IsMarker(df[rc[1]][rc[2]])}

\* the first marker met by the loops of lines 29 and 31
PrimoMarcatore(df) ==
    LET trovati == Marcatori(df)
    IN CHOOSE rc \in trovati :
          \A q \in trovati :
              rc[1] < q[1] \/ (rc[1] = q[1] /\ rc[2] <= q[2])

\* the messages of lines 38, 40, 43 and 46
MsgNone == [tipo |-> "None", valore |-> <<>>]
MsgImpostato(v) == [tipo |-> "impostato_su", valore |-> v]
MsgNonTrovato == [tipo |-> "valore_non_trovato", valore |-> <<>>]
MsgCampoNonTrovato == [tipo |-> "campo_non_trovato", valore |-> <<>>]

\* mutant of VerificaFiltroEscludi: the filter value compared as written
VerificaFiltroEscludiEsatto(df) ==
    IF Marcatori(df) = {} THEN [ok |-> TRUE, messaggio |-> MsgCampoNonTrovato]
    ELSE LET rc == PrimoMarcatore(df)
             row == df[rc[1]]
         IN IF rc[2] < Len(row)
            THEN LET filtro_val == row[rc[2] + 1]
                 IN IF NotNa(filtro_val) /\ StrOf(filtro_val) = Blank
                    THEN [ok |-> TRUE, messaggio |-> MsgNone]
                    ELSE [ok |-> FALSE,
                          messaggio |-> MsgImpostato(StrOf(filtro_val))]
            ELSE [ok |-> FALSE, messaggio |-> MsgNonTrovato]

\* lines 21-46
VerificaFiltroEscludi(df) ==
    IF Marcatori(df) = {} THEN [ok |-> TRUE, messaggio |-> MsgCampoNonTrovato]
    ELSE LET rc == PrimoMarcatore(df)
             row == df[rc[1]]
         IN IF rc[2] < Len(row)
            THEN LET filtro_val == row[rc[2] + 1]
                 IN IF NotNa(filtro_val) /\ Lower(StrOf(filtro_val)) = Blank
                    THEN [ok |-> TRUE, messaggio |-> MsgNone]
                    ELSE [ok |-> FALSE,
                          messaggio |-> MsgImpostato(StrOf(filtro_val))]
            ELSE [ok |-> FALSE, messaggio |-> MsgNonTrovato]

\* ------------------------------------------------------- estrai_mese_anno
\* the positions where the pattern (\d{2})-(\d{4}) matches
PosizioniData(t) ==
    {q \in 1..(Len(t) - 6) :
        /\ IsDigit(t[q]) /\ IsDigit(t[q + 1]) /\ t[q + 2] = "-"
        /\ \A d \in 3..6 : IsDigit(t[q + d])}

\* lines 102-110; [ok |-> FALSE] is (None, None)
EstraiMeseAnno(sheet_name) ==
    IF PosizioniData(sheet_name) = {} THEN [ok |-> FALSE, mese |-> 0, anno |-> 0]
    ELSE LET q == CHOOSE x \in PosizioniData(sheet_name) :
                     \A y \in PosizioniData(sheet_name) : x <= y
         IN [ok |-> TRUE,
             mese |-> DigitsVal(SubSeq(sheet_name, q, q + 1)),
             anno |-> DigitsVal(SubSeq(sheet_name, q + 3, q + 6))]

\* ------------------------------ estrai_dati_categoria: header and rows
TCategoria == <<"c", "a", "t", "e", "g", "o", "r", "i", "a">>
TRowLabels == <<"r", "o", "w", " ", "l", "a", "b", "e", "l", "s">>
TSumOfImporto == <<"S", "u", "m", " ", "o", "f", " ", "I", "m", "p", "o",
                   "r", "t", "o">>
TNan == <<"n", "a", "n">>
TGrandTotal == <<"g", "r", "a", "n", "d", " ", "t", "o", "t", "a", "l">>

\* lines 123-124
IsHeaderPerNome(row) ==
    \E c \in 1..Len(row) :
        LET v == IF NotNa(row[c]) THEN Lower(StrOf(row[c])) ELSE <<>>
        IN v = TCategoria \/ v = TRowLabels

\* lines 131-132
IsHeaderPerImporto(row) ==
    \E c \in 1..Len(row) :
        Contains(TSumOfImporto, IF NotNa(row[c]) THEN StrOf(row[c]) ELSE <<>>)

Minimo(S) == CHOOSE x \in S : \A y \in S : x <= y

\* mutant of HeaderRow: one scan, the topmost row matching either rule
HeaderRowPrimaQualsiasi(df) ==
    LET tutte == {r \in 1..Len(df) :
                    IsHeaderPerNome(df[r]) \/ IsHeaderPerImporto(df[r])}
    IN IF tutte # {} THEN Minimo(tutte) - 1 ELSE -1

\* lines 120-137: the 0-based index of the header row, -1 for None
HeaderRow(df) ==
    LET perNome == {r \in 1..Len(df) : IsHeaderPerNome(df[r])}
        perImporto == {r \in 1..Len(df) : IsHeaderPerImporto(df[r])}
    IN IF perNome # {} THEN Minimo(perNome) - 1
       ELSE IF perImporto # {} THEN Minimo(perImporto) - 1
       ELSE -1

\* grand_total: None or a number
TotaleNone == [presente |-> FALSE, valore |-> 0]
Totale(v) == [presente |-> TRUE, valore |-> v]

\* lines 146-174: the loop from the 0-based row idx, acc the rows retained
RECURSIVE Raccogli(_, _, _)
Raccogli(df, idx, acc) ==
    IF idx >= Len(df) THEN [rows_data |-> acc, grand_total |-> TotaleNone]
    ELSE
      LET row == df[idx + 1]
          nome == row[1]
          nome_str == Strip(StrOf(nome))
          importo == IF 1 < Len(row) /\ NotNa(row[2]) THEN row[2]
                     ELSE Numero(0)
          importo_float == IF FloatOf(importo).ok THEN FloatOf(importo).v
                           ELSE 0
      IN IF ~NotNa(nome) \/ nome_str = <<>> THEN Raccogli(df, idx + 1, acc)
         ELSE IF Lower(nome_str) \in {TNan, Blank}
              THEN Raccogli(df, idx + 1, acc)
         ELSE IF Lower(nome_str) = TGrandTotal
              THEN [rows_data |-> acc, grand_total |-> Totale(importo_float)]
         ELSE Raccogli(df, idx + 1,
                  Append(acc, [nome |-> nome_str, importo |-> importo_float,
                               idx |-> idx]))

\* lines 113-249; rows_data and origine are returned for the properties
EstraiDatiCategoria(df) ==
    LET header_row == HeaderRow(df)
    IN IF header_row = -1
       THEN [risultati |-> <<>>, grand_total |-> TotaleNone,
             rows_data |-> <<>>, origine |-> <<>>]
       ELSE LET r == Raccogli(df, header_row + 1, <<>>)
                w == EseguiWalk(StatoIniziale(r.rows_data))
            IN [risultati |-> w.risultati, grand_total |-> r.grand_total,
                rows_data |-> r.rows_data, origine |-> w.origine]

\* ------------------------------------------------ step-by-step specification
W == [rows_data |-> rows_data, i |-> i, j |-> j, somma_sotto |-> somma_sotto,
      sottocategorie |-> sottocategorie, risultati |-> risultati,
      origine |-> origine, esito |-> esito, pc |-> pc]

Poni(w) ==
    /\ rows_data' = w.rows_data /\ i' = w.i /\ j' = w.j
    /\ somma_sotto' = w.somma_sotto /\ sottocategorie' = w.sottocategorie
    /\ risultati' = w.risultati /\ origine' = w.origine
    /\ esito' = w.esito /\ pc' = w.pc
    /\ UNCHANGED mainVars
    /\ UNCHANGED sheetVars

\* main is not running
MainFermo ==
    /\ wb = <<>> /\ fase = "fermo" /\ pivot_sheets = <<>> /\ sheet_idx = 0
    /\ errori = <<>>
    /\ warnings = <<>> /\ dati_consolidati = <<>> /\ origine_dati = <<>>
    /\ riepilogo_mensile = <<>> /\ files = <<>> /\ exit_code = -1

\* no sheet is under examination on its own
FoglioFermo ==
    /\ sheet_df = <<>> /\ hdr_row = -1 /\ gran_totale = TotaleNone
    /\ ok = TRUE /\ messaggio = MsgNone

\* a list of retained rows from its labels and amounts; idx is the row's
\* position in the sheet (header in row 0, no row skipped)
Righe(n, f) ==
    [k \in 1..n |-> [nome |-> f[k][1], importo |-> f[k][2], idx |-> k]]

\* every ordered list of retained rows of at most MaxRows rows
InitWalk ==
    \E n \in 0..MaxRows : \E f \in [1..n -> Nomi \X Importi] :
        /\ rows_data = Righe(n, f) /\ i = 0 /\ j = 0 /\ somma_sotto = 0
        /\ sottocategorie = <<>> /\ risultati = <<>> /\ origine = <<>>
        /\ esito = "nessuno" /\ pc = "outer"
        /\ MainFermo /\ FoglioFermo

WSaltaTrattino == GSaltaTrattino(W) /\ Poni(SaltaTrattino(W))
WIniziaRicerca == GIniziaRicerca(W) /\ Poni(IniziaRicerca(W))
WRitorna == GRitorna(W) /\ Poni(Ritorna(W))
WFineRighe == GFineRighe(W) /\ Poni(FineRighe(W))
WFineTerminatore == GFineTerminatore(W) /\ Poni(FineTerminatore(W))
WFineCoincide == GFineCoincide(W) /\ Poni(FineCoincide(W))
WAccumula == GAccumula(W) /\ Poni(Accumula(W))
WFineOltre == GFineOltre(W) /\ Poni(FineOltre(W))
WEmettiSotto == GEmettiSotto(W) /\ Poni(EmettiSotto(W))
WEmettiPiatta == GEmettiPiatta(W) /\ Poni(EmettiPiatta(W))

NextWalk ==
    \/ WSaltaTrattino
    \/ WIniziaRicerca
    \/ WRitorna
    \/ WFineRighe
    \/ WFineTerminatore
    \/ WFineCoincide
    \/ WAccumula
    \/ WFineOltre
    \/ WEmettiSotto
    \/ WEmettiPiatta

SpecWalk == InitWalk /\ [][NextWalk]_vars

\* --------------------------------- estrai_dati_categoria on one sheet
TRowLabelsMaiuscolo == <<"R", "O", "W", " ", "L", "A", "B", "E", "L", "S">>
TGrandTotalSpazi ==
    <<" ", "G", "R", "A", "N", "D", " ", "T", "O", "T", "A", "L", " ">>
TNonNumero == <<"n", "/", "a">>
TGrandTotalCell == <<"G", "r", "a", "n", "d", " ", "T", "o", "t", "a", "l">>
THeaderCategoria == <<"C", "a", "t", "e", "g", "o", "r", "i", "a">>

\* the rows a sheet of the model is made of: an empty row, a header matching
\* both rules, one matching the label rule only, one matching the value rule
\* only, data rows, grand-total rows (one with an amount that is no number)
\* and a row with the placeholder label
RighePossibili ==
    { <<Vuota, Vuota>>,
      <<Testo(THeaderCategoria), Testo(TSumOfImporto)>>,
      <<Testo(TRowLabelsMaiuscolo), Vuota>>,
      <<Testo(TSumOfImporto), Vuota>>,
      <<Testo(NomeVoce), Numero(2 * UnitaPerUno)>>,
      <<Testo(NomeVoce), Numero(UnitaPerUno)>>,
      <<Testo(Trattino), Numero(2 * UnitaPerUno)>>,
      <<Testo(TGrandTotalCell), Numero(3 * UnitaPerUno)>>,
      <<Testo(TGrandTotalSpazi), Testo(TNonNumero)>>,
      <<Testo(Blank), Numero(UnitaPerUno)>> }

\* every sheet of at most MaxTab rows
InitEstrai ==
    /\ \E n \in 0..MaxTab : \E f \in [1..n -> RighePossibili] : sheet_df = f
    /\ hdr_row = -1 /\ gran_totale = TotaleNone
    /\ ok = TRUE /\ messaggio = MsgNone
    /\ rows_data = <<>> /\ i = 0 /\ j = 0 /\ somma_sotto = 0
    /\ sottocategorie = <<>> /\ risultati = <<>> /\ origine = <<>>
    /\ esito = "nessuno" /\ pc = "header"
    /\ MainFermo

\* mutant of CercaHeader: without a header the rows are collected from the top
CercaHeaderProsegue ==
    /\ pc = "header"
    /\ hdr_row' = HeaderRow(sheet_df)
    /\ pc' = "raccogli"
    /\ UNCHANGED <<sheet_df, gran_totale, ok, messaggio>>
    /\ UNCHANGED <<rows_data, i, j, somma_sotto, sottocategorie, risultati,
                   origine, esito>>
    /\ UNCHANGED mainVars

\* lines 118-137: the header is looked for; without one the function returns
CercaHeader ==
    /\ pc = "header"
    /\ hdr_row' = HeaderRow(sheet_df)
    /\ pc' = IF HeaderRow(sheet_df) = -1 THEN "done" ELSE "raccogli"
    /\ UNCHANGED <<sheet_df, gran_totale, ok, messaggio>>
    /\ UNCHANGED <<rows_data, i, j, somma_sotto, sottocategorie, risultati,
                   origine, esito>>
    /\ UNCHANGED mainVars

\* mutant of RaccogliRighe: the grand total is not recorded
RaccogliRigheSenzaTotale ==
    /\ pc = "raccogli"
    /\ rows_data' = Raccogli(sheet_df, hdr_row + 1, <<>>).rows_data
    /\ gran_totale' = TotaleNone
    /\ pc' = "outer"
    /\ UNCHANGED <<sheet_df, hdr_row, ok, messaggio>>
    /\ UNCHANGED <<i, j, somma_sotto, sottocategorie, risultati, origine,
                   esito>>
    /\ UNCHANGED mainVars

\* lines 139-174: the rows after the header are collected
RaccogliRighe ==
    /\ pc = "raccogli"
    /\ rows_data' = Raccogli(sheet_df, hdr_row + 1, <<>>).rows_data
    /\ gran_totale' = Raccogli(sheet_df, hdr_row + 1, <<>>).grand_total
    /\ pc' = "outer"
    /\ UNCHANGED <<sheet_df, hdr_row, ok, messaggio>>
    /\ UNCHANGED <<i, j, somma_sotto, sottocategorie, risultati, origine,
                   esito>>
    /\ UNCHANGED mainVars

NextEstrai ==
    \/ CercaHeader
    \/ RaccogliRighe
    \/ WSaltaTrattino
    \/ WIniziaRicerca
    \/ WRitorna
    \/ WFineRighe
    \/ WFineTerminatore
    \/ WFineCoincide
    \/ WAccumula
    \/ WFineOltre
    \/ WEmettiSotto
    \/ WEmettiPiatta

SpecEstrai == InitEstrai /\ [][NextEstrai]_vars

\* =================================================================== main
TPivot == <<"p", "i", "v", "o", "t">>

\* lines 61 and 261: the sheets whose name starts with 'pivot', in workbook
\* order
PivotSheets(book) ==
    SelectSeq(book, LAMBDA sh : StartsWith(Lower(sh.nome), TPivot))

\* a sort key is a tuple of strings, compared component by component
RECURSIVE KeyLess(_, _)
KeyLess(a, b) ==
    IF a = <<>> THEN FALSE
    ELSE IF Head(a) = Head(b) THEN KeyLess(Tail(a), Tail(b))
    ELSE LexLess(Head(a), Head(b))

\* stable insertion of x into a sequence sorted by key
RECURSIVE Inserisci(_, _)
Inserisci(x, sorted) ==
    IF sorted = <<>> THEN <<x>>
    ELSE IF KeyLess(x.key, Head(sorted).key) THEN <<x>> \o sorted
    ELSE <<Head(sorted)>> \o Inserisci(x, Tail(sorted))

RECURSIVE OrdinaCoppie(_)
OrdinaCoppie(seq) ==
    IF seq = <<>> THEN <<>>
    ELSE Inserisci(seq[Len(seq)], OrdinaCoppie(SubSeq(seq, 1, Len(seq) - 1)))

\* a stable sort by key: sorted() of line 270, sort_values of lines 345 and
\* 347 (on the short tables of the model numpy's sort is an insertion sort)
Valori(coppie) == [n \in 1..Len(coppie) |-> coppie[n].val]

\* line 270
SortedPivotSheets(book) ==
    LET ps == PivotSheets(book)
    IN Valori(OrdinaCoppie([n \in 1..Len(ps) |->
                              [key |-> <<ps[n].nome>>, val |-> ps[n]]]))

\* line 277: f"{anno}-{mese:02d}"
DataStr(mese, anno) == DigitsOf(anno, 1) \o <<"-">> \o DigitsOf(mese, 2)
\* line 278: f"{mese:02d}/{anno}"
DataLabel(mese, anno) == DigitsOf(mese, 2) \o <<"/">> \o DigitsOf(anno, 1)

\* round(x, 2) of an amount in units of 0.005: to the nearest multiple of
\* 0.01, a half to the even one
Round2(x) ==
    IF x % 2 = 0 THEN x
    ELSE IF ((x - 1) \div 2) % 2 = 0 THEN x - 1 ELSE x + 1

\* mutant of VoceConsolidata: the kind recomputed from the entry's own amount
VoceConsolidataSegno(mese, anno, item) ==
    [data |-> DataStr(mese, anno), data_label |-> DataLabel(mese, anno),
     mese |-> mese, anno |-> anno, categoria |-> item.categoria,
     sottocategoria |-> item.sottocategoria, importo |-> item.importo,
     tipo |-> IF item.importo >= 0 THEN "entrata" ELSE "uscita"]

\* lines 293-302
VoceConsolidata(mese, anno, item) ==
    [data |-> DataStr(mese, anno), data_label |-> DataLabel(mese, anno),
     mese |-> mese, anno |-> anno, categoria |-> item.categoria,
     sottocategoria |-> item.sottocategoria, importo |-> item.importo,
     tipo |-> item.tipo]

\* lines 288-307: the sum of the amounts of the entries of one kind
RECURSIVE TotaleTipo(_, _)
TotaleTipo(ris, tipo) ==
    IF ris = <<>> THEN 0
    ELSE (IF (Head(ris).tipo = "entrata") = (tipo = "entrata")
          THEN Head(ris).importo ELSE 0) + TotaleTipo(Tail(ris), tipo)

\* mutant of Riepilogo: the balance always computed from the totals
RiepilogoSoloSomma(mese, anno, ris, grand_total) ==
    LET totale_entrate == TotaleTipo(ris, "entrata")
        totale_uscite == TotaleTipo(ris, "uscita")
    IN [data |-> DataStr(mese, anno), data_label |-> DataLabel(mese, anno),
        mese |-> mese, anno |-> anno,
        totale_entrate |-> Round2(totale_entrate),
        totale_uscite |-> Round2(totale_uscite),
        saldo |-> Round2(totale_entrate + totale_uscite)]

\* lines 310-324
Riepilogo(mese, anno, ris, grand_total) ==
    LET totale_entrate == TotaleTipo(ris, "entrata")
        totale_uscite == TotaleTipo(ris, "uscita")
        saldo == IF grand_total.presente THEN grand_total.valore
                 ELSE totale_entrate + totale_uscite
    IN [data |-> DataStr(mese, anno), data_label |-> DataLabel(mese, anno),
        mese |-> mese, anno |-> anno,
        totale_entrate |-> Round2(totale_entrate),
        totale_uscite |-> Round2(totale_uscite),
        saldo |-> Round2(saldo)]

\* line 345: sort_values(['data', 'categoria'])
OrdinaDettaglio(seq) ==
    Valori(OrdinaCoppie([n \in 1..Len(seq) |->
              [key |-> <<seq[n].data, seq[n].categoria>>, val |-> seq[n]]]))

\* line 347: sort_values('data')
OrdinaRiepilogo(seq) ==
    Valori(OrdinaCoppie([n \in 1..Len(seq) |->
              [key |-> <<seq[n].data>>, val |-> seq[n]]]))

\* ---------------------------------------------------------------- actions
\* pivot_sheets is the list a for loop runs over (line 67: the list of line
\* 61; line 270: sorted() of the list of line 261), sheet_idx the number of
\* its iterations done.

\* lines 56-65: verifica_tutti_i_filtri lists the candidate sheets
VerificaInizio ==
    /\ fase = "start"
    /\ pivot_sheets' = PivotSheets(wb)
    /\ fase' = "verifica" /\ sheet_idx' = 0
    /\ UNCHANGED <<wb, errori, warnings, dati_consolidati, origine_dati,
                   riepilogo_mensile, files, exit_code>>
    /\ UNCHANGED walkVars
    /\ UNCHANGED sheetVars

\* mutant of VerificaFoglio: the loop is left at the first failing sheet
VerificaFoglioPrimoErrore ==
    /\ fase = "verifica" /\ sheet_idx < Len(pivot_sheets)
    /\ LET sh == pivot_sheets[sheet_idx + 1]
           esitoFiltro == VerificaFiltroEscludi(sh.df)
       IN /\ errori' = IF ~esitoFiltro.ok
                       THEN Append(errori, [foglio |-> sh.nome,
                                            messaggio |-> esitoFiltro.messaggio])
                       ELSE errori
          /\ warnings' = IF esitoFiltro.ok /\ esitoFiltro.messaggio # MsgNone
                         THEN Append(warnings, [foglio |-> sh.nome,
                                                messaggio |-> esitoFiltro.messaggio])
                         ELSE warnings
          /\ sheet_idx' = IF ~esitoFiltro.ok THEN Len(pivot_sheets)
                          ELSE sheet_idx + 1
    /\ UNCHANGED <<wb, fase, pivot_sheets, dati_consolidati, origine_dati,
                   riepilogo_mensile, files, exit_code>>
    /\ UNCHANGED walkVars
    /\ UNCHANGED sheetVars

\* lines 67-74: one iteration of the loop of verifica_tutti_i_filtri
VerificaFoglio ==
    /\ fase = "verifica" /\ sheet_idx < Len(pivot_sheets)
    /\ LET sh == pivot_sheets[sheet_idx + 1]
           esitoFiltro == VerificaFiltroEscludi(sh.df)
       IN /\ errori' = IF ~esitoFiltro.ok
                       THEN Append(errori, [foglio |-> sh.nome,
                                            messaggio |-> esitoFiltro.messaggio])
                       ELSE errori
          /\ warnings' = IF esitoFiltro.ok /\ esitoFiltro.messaggio # MsgNone
                         THEN Append(warnings, [foglio |-> sh.nome,
                                                messaggio |-> esitoFiltro.messaggio])
                         ELSE warnings
    /\ sheet_idx' = sheet_idx + 1
    /\ UNCHANGED <<wb, fase, pivot_sheets, dati_consolidati, origine_dati,
                   riepilogo_mensile, files, exit_code>>
    /\ UNCHANGED walkVars
    /\ UNCHANGED sheetVars

\* lines 77-91 and 446-448: the gate fails and main leaves with sys.exit(1)
VerificaFallita ==
    /\ fase = "verifica" /\ sheet_idx >= Len(pivot_sheets)
    /\ errori # <<>>
    /\ fase' = "exit" /\ exit_code' = 1
    /\ UNCHANGED <<wb, pivot_sheets, sheet_idx, errori, warnings,
                   dati_consolidati, origine_dati, riepilogo_mensile, files>>
    /\ UNCHANGED walkVars
    /\ UNCHANGED sheetVars

\* mutant of VerificaSuperata: main goes on whatever the gate returned
VerificaSuperataComunque ==
    /\ fase = "verifica" /\ sheet_idx >= Len(pivot_sheets)
    /\ pivot_sheets' = SortedPivotSheets(wb)
    /\ fase' = "elabora" /\ sheet_idx' = 0
    /\ UNCHANGED <<wb, errori, warnings, dati_consolidati, origine_dati,
                   riepilogo_mensile, files, exit_code>>
    /\ UNCHANGED walkVars
    /\ UNCHANGED sheetVars

\* lines 93-99, 451 and 255-270: the gate passes and elabora_tutti_i_pivot
\* lists the candidate sheets in the order of their names
VerificaSuperata ==
    /\ fase = "verifica" /\ sheet_idx >= Len(pivot_sheets)
    /\ errori = <<>>
    /\ pivot_sheets' = SortedPivotSheets(wb)
    /\ fase' = "elabora" /\ sheet_idx' = 0
    /\ UNCHANGED <<wb, errori, warnings, dati_consolidati, origine_dati,
                   riepilogo_mensile, files, exit_code>>
    /\ UNCHANGED walkVars
    /\ UNCHANGED sheetVars

\* lines 270-274: a sheet without a date in its name is skipped
ElaboraSalta ==
    /\ fase = "elabora" /\ sheet_idx < Len(pivot_sheets)
    /\ ~EstraiMeseAnno(pivot_sheets[sheet_idx + 1].nome).ok
    /\ sheet_idx' = sheet_idx + 1
    /\ UNCHANGED <<wb, fase, pivot_sheets, errori, warnings,
                   dati_consolidati, origine_dati, riepilogo_mensile, files,
                   exit_code>>
    /\ UNCHANGED walkVars
    /\ UNCHANGED sheetVars

\* mutant of ElaboraFoglio: the entries of the sheets reconstructed before
\* are still in the list the reconstruction returns
ElaboraFoglioConResiduo ==
    /\ fase = "elabora" /\ sheet_idx < Len(pivot_sheets)
    /\ LET sh == pivot_sheets[sheet_idx + 1]
           ma == EstraiMeseAnno(sh.nome)
           r == EstraiDatiCategoria(sh.df)
           residuo == [n \in 1..Len(dati_consolidati) |->
                         [categoria |-> dati_consolidati[n].categoria,
                          sottocategoria |-> dati_consolidati[n].sottocategoria,
                          importo |-> dati_consolidati[n].importo,
                          tipo |-> dati_consolidati[n].tipo]]
           tutte == residuo \o r.risultati
       IN /\ ma.ok
          /\ dati_consolidati' = dati_consolidati \o
                [n \in 1..Len(tutte) |->
                    VoceConsolidata(ma.mese, ma.anno, tutte[n])]
          /\ origine_dati' = origine_dati \o
                [n \in 1..Len(residuo) |->
                    [foglio |-> sh.nome, riga |-> origine_dati[n].riga,
                     cat |-> origine_dati[n].cat]] \o
                [n \in 1..Len(r.risultati) |->
                    [foglio |-> sh.nome, riga |-> r.origine[n].riga,
                     cat |-> r.origine[n].cat]]
          /\ riepilogo_mensile' = Append(riepilogo_mensile,
                Riepilogo(ma.mese, ma.anno, tutte, r.grand_total))
    /\ sheet_idx' = sheet_idx + 1
    /\ UNCHANGED <<wb, fase, pivot_sheets, errori, warnings, files,
                   exit_code>>
    /\ UNCHANGED walkVars
    /\ UNCHANGED sheetVars

\* mutant of ElaboraFoglio: a sheet that returns nothing gets no summary
ElaboraFoglioSaltaVuoti ==
    /\ fase = "elabora" /\ sheet_idx < Len(pivot_sheets)
    /\ LET sh == pivot_sheets[sheet_idx + 1]
           ma == EstraiMeseAnno(sh.nome)
           r == EstraiDatiCategoria(sh.df)
       IN /\ ma.ok
          /\ dati_consolidati' = dati_consolidati \o
                [n \in 1..Len(r.risultati) |->
                    VoceConsolidata(ma.mese, ma.anno, r.risultati[n])]
          /\ origine_dati' = origine_dati \o
                [n \in 1..Len(r.risultati) |->
                    [foglio |-> sh.nome, riga |-> r.origine[n].riga,
                     cat |-> r.origine[n].cat]]
          /\ riepilogo_mensile' =
                IF r.risultati = <<>> /\ ~r.grand_total.presente
                THEN riepilogo_mensile
                ELSE Append(riepilogo_mensile,
                        Riepilogo(ma.mese, ma.anno, r.risultati, r.grand_total))
    /\ sheet_idx' = sheet_idx + 1
    /\ UNCHANGED <<wb, fase, pivot_sheets, errori, warnings, files,
                   exit_code>>
    /\ UNCHANGED walkVars
    /\ UNCHANGED sheetVars

\* lines 270-327: one sheet is reconstructed and folded
ElaboraFoglio ==
    /\ fase = "elabora" /\ sheet_idx < Len(pivot_sheets)
    /\ LET sh == pivot_sheets[sheet_idx + 1]
           ma == EstraiMeseAnno(sh.nome)
           r == EstraiDatiCategoria(sh.df)
       IN /\ ma.ok
          /\ dati_consolidati' = dati_consolidati \o
                [n \in 1..Len(r.risultati) |->
                    VoceConsolidata(ma.mese, ma.anno, r.risultati[n])]
          /\ origine_dati' = origine_dati \o
                [n \in 1..Len(r.risultati) |->
                    [foglio |-> sh.nome, riga |-> r.origine[n].riga,
                     cat |-> r.origine[n].cat]]
          /\ riepilogo_mensile' = Append(riepilogo_mensile,
                Riepilogo(ma.mese, ma.anno, r.risultati, r.grand_total))
    /\ sheet_idx' = sheet_idx + 1
    /\ UNCHANGED <<wb, fase, pivot_sheets, errori, warnings, files,
                   exit_code>>
    /\ UNCHANGED walkVars
    /\ UNCHANGED sheetVars

\* lines 329 and 332-375: the collections are sorted and written
SalvaRisultati ==
    /\ fase = "elabora" /\ sheet_idx >= Len(pivot_sheets)
    /\ LET df_dettaglio == OrdinaDettaglio(dati_consolidati)
           df_riepilogo == OrdinaRiepilogo(riepilogo_mensile)
       IN files' = << [dettaglio |-> df_dettaglio,
                       riepilogo |-> df_riepilogo,
                       periodo |-> IF df_riepilogo = <<>> THEN <<>>
                                   ELSE <<df_riepilogo[1].data_label,
                                          df_riepilogo[Len(df_riepilogo)].data_label>>] >>
    /\ fase' = "salvato"
    /\ UNCHANGED <<wb, pivot_sheets, sheet_idx, errori, warnings,
                   dati_consolidati, origine_dati, riepilogo_mensile,
                   exit_code>>
    /\ UNCHANGED walkVars
    /\ UNCHANGED sheetVars

\* lines 457-461: the analysis is printed and main returns
Termina ==
    /\ fase = "salvato"
    /\ fase' = "done" /\ exit_code' = 0
    /\ UNCHANGED <<wb, pivot_sheets, sheet_idx, errori, warnings,
                   dati_consolidati, origine_dati, riepilogo_mensile, files>>
    /\ UNCHANGED walkVars
    /\ UNCHANGED sheetVars

\* ----------------------------------------------------------- the workbooks
NomePivotGen24 == <<"P", "i", "v", "o", "t", " ", "0", "1", "-", "2", "0", "2", "4">>
NomePivotLug23 == <<"p", "i", "v", "o", "t", " ", "0", "7", "-", "2", "0", "2", "3">>
NomePivotGen24Bis == <<"P", "I", "V", "O", "T", " ", "0", "1", "-", "2", "0", "2", "4", " ", "b">>
NomePivotArchive == <<"P", "i", "v", "o", "t", " ", "A", "r", "c", "h", "i", "v", "e">>
NomePivotMese13 == <<"P", "i", "v", "o", "t", " ", "1", "3", "-", "2", "0", "2", "4">>
NomePivotGen0999 == <<"P", "i", "v", "o", "t", " ", "0", "1", "-", "0", "9", "9", "9">>
NomeDati == <<"D", "a", "t", "i", " ", "0", "1", "-", "2", "0", "2", "4">>
NomiFogli ==
    {NomePivotGen24, NomePivotLug23, NomePivotGen24Bis, NomePivotArchive,
     NomePivotMese13, NomePivotGen0999, NomeDati}

TEscludi == <<"E", "s", "c", "l", "u", "d", "i">>
TBlankCell == <<"(", "b", "l", "a", "n", "k", ")">>
TTipoX == <<"T", "i", "p", "o", "X">>
THCategoria == <<"C", "a", "t", "e", "g", "o", "r", "i", "a">>
TLavoro == <<"L", "a", "v", "o", "r", "o">>
TCasa == <<"C", "a", "s", "a">>
TAffitto == <<"A", "f", "f", "i", "t", "t", "o">>
TBollette == <<"B", "o", "l", "l", "e", "t", "t", "e">>
TSpese == <<"S", "p", "e", "s", "e">>
TRimborso == <<"R", "i", "m", "b", "o", "r", "s", "o">>
TAcquisti == <<"A", "c", "q", "u", "i", "s", "t", "i">>
TGT == <<"G", "r", "a", "n", "d", " ", "T", "o", "t", "a", "l">>

\* an amount of x.00 in units of 0.005
Euro(x) == x * UnitaPerUno

RigaFiltroOk == <<Testo(TEscludi), Testo(TBlankCell)>>
RigaFiltroKo == <<Testo(TEscludi), Testo(TTipoX)>>
RigaVuota == <<Vuota, Vuota>>
RigaHeader == <<Testo(THCategoria), Testo(TSumOfImporto)>>
Riga(nome, importo) == <<Testo(nome), Numero(importo)>>

\* Lavoro 2000 closed by its "-" row, Casa -800 = Affitto -500 + Bollette -300
DatiGruppo ==
    <<Riga(TLavoro, Euro(2000)), Riga(Trattino, Euro(2000)),
      Riga(TCasa, Euro(-800)), Riga(TAffitto, Euro(-500)),
      Riga(TBollette, Euro(-300))>>
\* Spese -100 = Rimborso +50 + Acquisti -150
DatiSegnoMisto ==
    <<Riga(TSpese, Euro(-100)), Riga(TRimborso, Euro(50)),
      Riga(TAcquisti, Euro(-150))>>

\* the sheets of the model: filter row, empty row, header, data, grand total
Fogli ==
    { <<RigaFiltroOk, RigaVuota, RigaHeader>> \o DatiGruppo
          \o <<Riga(TGT, Euro(1200))>>,
      <<RigaFiltroOk, RigaVuota, RigaHeader>> \o DatiSegnoMisto
          \o <<Riga(TGT, 0)>>,
      <<RigaFiltroOk, RigaVuota, RigaHeader>> \o DatiSegnoMisto,
      <<RigaFiltroKo, RigaVuota, RigaHeader>> \o DatiGruppo
          \o <<Riga(TGT, Euro(1200))>>,
      <<RigaHeader>> \o DatiGruppo,
      <<RigaFiltroOk, RigaVuota>> \o DatiGruppo }

\* every workbook of at most MaxSheets sheets with distinct names
Init ==
    /\ \E n \in 1..MaxSheets :
         \E nomi \in [1..n -> NomiFogli] : \E dfs \in [1..n -> Fogli] :
            /\ \A a, b \in 1..n : a # b => nomi[a] # nomi[b]
            /\ wb = [x \in 1..n |-> [nome |-> nomi[x], df |-> dfs[x]]]
    /\ fase = "start" /\ pivot_sheets = <<>> /\ sheet_idx = 0
    /\ errori = <<>> /\ warnings = <<>>
    /\ dati_consolidati = <<>> /\ origine_dati = <<>>
    /\ riepilogo_mensile = <<>> /\ files = <<>> /\ exit_code = -1
    /\ rows_data = <<>> /\ i = 0 /\ j = 0 /\ somma_sotto = 0
    /\ sottocategorie = <<>> /\ risultati = <<>> /\ origine = <<>>
    /\ esito = "nessuno" /\ pc = "fermo"
    /\ FoglioFermo

Next ==
    \/ VerificaInizio
    \/ VerificaFoglio
    \/ VerificaFallita
    \/ VerificaSuperata
    \/ ElaboraSalta
    \/ ElaboraFoglio
    \/ SalvaRisultati
    \/ Termina

Spec == Init /\ [][Next]_vars

\* ------------------------------------ verifica_filtro_escludi on one sheet
TBlankMisto == <<"(", "B", "l", "a", "n", "k", ")">>

\* the rows a sheet under verification is made of: the filter set to the
\* blank value written with a capital, the filter set to a value, the filter
\* with an empty cell beside it, the marker in the last column, an empty row
RigheFiltro ==
    { <<Testo(TEscludi), Testo(TBlankMisto)>>,
      RigaFiltroKo,
      <<Testo(TEscludi), Vuota>>,
      <<Vuota, Testo(TEscludi)>>,
      RigaVuota }

\* every sheet of at most MaxFiltro rows
InitFiltro ==
    /\ \E n \in 0..MaxFiltro : \E f \in [1..n -> RigheFiltro] : sheet_df = f
    /\ hdr_row = -1 /\ gran_totale = TotaleNone
    /\ ok = TRUE /\ messaggio = MsgNone
    /\ rows_data = <<>> /\ i = 0 /\ j = 0 /\ somma_sotto = 0
    /\ sottocategorie = <<>> /\ risultati = <<>> /\ origine = <<>>
    /\ esito = "nessuno" /\ pc = "filtro"
    /\ MainFermo

\* line 69: ok, messaggio = verifica_filtro_escludi(df, sheet_name)
Verifica ==
    /\ pc = "filtro"
    /\ LET esitoFiltro == VerificaFiltroEscludi(sheet_df)
       IN ok' = esitoFiltro.ok /\ messaggio' = esitoFiltro.messaggio
    /\ pc' = "fatto"
    /\ UNCHANGED <<sheet_df, hdr_row, gran_totale>>
    /\ UNCHANGED <<rows_data, i, j, somma_sotto, sottocategorie, risultati,
                   origine, esito>>
    /\ UNCHANGED mainVars

NextFiltro == Verifica

SpecFiltro == InitFiltro /\ [][NextFiltro]_vars

\* ======================================================= properties: walk
\* helpers of the properties
RECURSIVE SommaImporti(_)
SommaImporti(s) ==
    IF s = <<>> THEN 0 ELSE Head(s).importo + SommaImporti(Tail(s))

NonTrattino(r) == r.nome # Trattino

\* the row of rows_data whose sheet index is x
RigaDi(x) ==
    rows_data[CHOOSE k \in 1..Len(rows_data) : rows_data[k].idx = x]

\* the category row under examination while pc is "inner" or "emit"
Cat == rows_data[i + 1]

\* the entries appended by a step, with the rows they come from
VociNuove ==
    [k \in 1..(Len(risultati') - Len(risultati)) |->
        <<risultati'[Len(risultati) + k].categoria,
          risultati'[Len(risultati) + k].sottocategoria,
          risultati'[Len(risultati) + k].importo,
          origine'[Len(origine) + k].riga,
          origine'[Len(origine) + k].cat>>]

\* one subcategory entry per row of rows, tagged with the category cat
VociSottoAttese(rows, cat) ==
    [k \in 1..Len(rows) |->
        <<cat.nome, rows[k].nome, rows[k].importo, rows[k].idx, cat.idx>>]

\* the single flat entry of the category cat
VocePiattaAttesa(cat) ==
    << <<cat.nome, Nessuna, cat.importo, cat.idx, cat.idx>> >>

SoloAggiunte ==
    /\ Len(risultati') >= Len(risultati)
    /\ SubSeq(risultati', 1, Len(risultati)) = risultati

\* the subcategory entries of the category row with sheet index c
VociSottoDi(c) ==
    {m \in 1..Len(risultati) :
        origine[m].cat = c /\ risultati[m].sottocategoria # Nessuna}

RECURSIVE SommaVoci(_)
SommaVoci(ms) ==
    IF ms = {} THEN 0
    ELSE LET m == CHOOSE x \in ms : TRUE
         IN risultati[m].importo + SommaVoci(ms \ {m})

\* C2 (the claim as stated): partition completeness. After reconstruct, for
\* every category with at least one subcategory entry in the output, the sum
\* of the amounts of its subcategory entries differs from the category row's
\* own amount by at most 0.01.
C2_PartitionCompleteness ==
    pc = "done" =>
        \A k \in 1..Len(rows_data) :
            VociSottoDi(rows_data[k].idx) # {} =>
                Abs(SommaVoci(VociSottoDi(rows_data[k].idx))
                    - rows_data[k].importo) <= Tol

\* the look-ahead row at j overshoots: it is no terminator, the sum with it
\* does not match, and its absolute value exceeds the category's by more
\* than 0.01
OvershootAtJ ==
    /\ pc = "inner" /\ j < Len(rows_data)
    /\ ~(rows_data[j + 1].nome = Trattino
         /\ Abs(rows_data[j + 1].importo - Cat.importo) < Tol)
    /\ ~(Abs(somma_sotto + rows_data[j + 1].importo - Cat.importo) < Tol)
    /\ Abs(somma_sotto + rows_data[j + 1].importo) > Abs(Cat.importo) + Tol

\* C3 (the claim as stated): on overshoot at look-ahead position j, row j is
\* not consumed and is the next row examined as a category candidate, and
\* every row accumulated before j is emitted as a subcategory entry of the
\* current category.
C3_OvershootKeepsAll ==
    [][ /\ OvershootAtJ =>
            (pc' = "emit" /\ esito' = "oltre" /\ j' = j /\ i' = i
             /\ sottocategorie' = sottocategorie /\ risultati' = risultati)
        /\ (pc = "emit" /\ esito = "oltre") =>
            (/\ i' = j /\ pc' = "outer" /\ SoloAggiunte
             /\ sottocategorie # <<>> =>
                  VociNuove = VociSottoAttese(sottocategorie, Cat)) ]_vars

\* C3 (amended): on overshoot at look-ahead position j, row j is not consumed
\* and is the next row examined as a category candidate, and the rows
\* accumulated before j whose label is not "-" are emitted, in order, as
\* subcategory entries of the current category; accumulated "-" rows are
\* consumed without an entry.
C3_Overshoot ==
    [][ /\ OvershootAtJ =>
            (pc' = "emit" /\ esito' = "oltre" /\ j' = j /\ i' = i
             /\ sottocategorie' = sottocategorie /\ risultati' = risultati)
        /\ (pc = "emit" /\ esito = "oltre") =>
            (/\ i' = j /\ pc' = "outer" /\ SoloAggiunte
             /\ sottocategorie # <<>> =>
                  VociNuove = VociSottoAttese(
                      SelectSeq(sottocategorie, NonTrattino), Cat)) ]_vars

\* C3 witness: an overshoot after two accumulated rows, one of them "-", has
\* been emitted and the overshooting row is the next category candidate.
C3_Witness ==
    /\ pc = "outer" /\ esito = "oltre" /\ i = j /\ i < Len(rows_data)
    /\ Len(sottocategorie) = 2
    /\ \E k \in 1..2 : sottocategorie[k].nome = Trattino
    /\ risultati # <<>>
    /\ origine[Len(origine)].riga # origine[Len(origine)].cat

SommaPrefisso(k) == SommaImporti(SubSeq(rows_data, i + 2, i + 1 + k))

\* rows i+1..i+k are the shortest prefix that sums to the category amount
\* within the tolerance, no shorter prefix overshoots, none is a matching
\* "-" terminator
GruppoCoincide(k) ==
    /\ k \in 1..(Len(rows_data) - i - 1)
    /\ Abs(SommaPrefisso(k) - Cat.importo) < Tol
    /\ \A n \in 1..(k - 1) :
          /\ ~(Abs(SommaPrefisso(n) - Cat.importo) < Tol)
          /\ Abs(SommaPrefisso(n)) <= Abs(Cat.importo) + Tol
    /\ \A n \in 1..k :
          ~(rows_data[i + 1 + n].nome = Trattino
            /\ Abs(rows_data[i + 1 + n].importo - Cat.importo) < Tol)

\* C5 (the claim as stated): matched group. For a category row at position i,
\* if rows i+1..i+k are the shortest prefix summing to the category amount
\* within 0.01, with no shorter prefix overshooting and no matching "-"
\* terminator among them, exactly those rows are consumed as subcategories,
\* each emitted as one entry tagged with the category, and row i+k+1 is the
\* next category candidate.
C5_MatchedGroupAllEmitted ==
    [][ \A k \in 1..MaxRows + 1 :
          (pc = "emit" /\ GruppoCoincide(k)) =>
            /\ j = i + k + 1
            /\ sottocategorie = SubSeq(rows_data, i + 2, i + 1 + k)
            /\ i' = i + k + 1 /\ pc' = "outer" /\ SoloAggiunte
            /\ VociNuove = VociSottoAttese(sottocategorie, Cat) ]_vars

\* C5 (amended): matched group. Under the same premises exactly rows
\* i+1..i+k are consumed as the category's subcategories, each of them whose
\* label is not "-" is emitted, in order, as one entry tagged with the
\* category (a consumed row labelled "-" yields no entry), and row i+k+1 is
\* the next category candidate.
C5_MatchedGroup ==
    [][ \A k \in 1..MaxRows + 1 :
          (pc = "emit" /\ GruppoCoincide(k)) =>
            /\ j = i + k + 1
            /\ sottocategorie = SubSeq(rows_data, i + 2, i + 1 + k)
            /\ i' = i + k + 1 /\ pc' = "outer" /\ SoloAggiunte
            /\ VociNuove = VociSottoAttese(
                   SelectSeq(sottocategorie, NonTrattino), Cat) ]_vars

\* C5 witness: a category matched by its two following rows has emitted two
\* subcategory entries and a further row is the next category candidate.
C5_Witness ==
    /\ pc = "outer" /\ esito = "coincide" /\ Len(sottocategorie) = 2
    /\ i = j /\ i < Len(rows_data) /\ rows_data[i + 1].nome # Trattino
    /\ Len(risultati) >= 2
    /\ origine[Len(origine)].riga = sottocategorie[2].idx
    /\ origine[Len(origine) - 1].riga = sottocategorie[1].idx
    /\ origine[Len(origine)].cat = rows_data[i - 2].idx

\* no entry comes from a row labelled "-"
NessunaVoceDaTrattino ==
    \A m \in 1..Len(origine) : RigaDi(origine[m].riga).nome # Trattino

\* C6 (the claim as stated): a "-" row that immediately follows a category
\* row and whose amount differs from the category's by at most 0.01 (exactly
\* 0.01 included) produces zero subcategory entries: the category is emitted
\* as exactly one flat entry with its own amount and the "-" row produces no
\* entry.
C6_DashWithinTolInclusive ==
    /\ [][ (/\ pc = "emit" /\ i + 1 < Len(rows_data)
            /\ rows_data[i + 2].nome = Trattino
            /\ Abs(rows_data[i + 2].importo - Cat.importo) <= Tol) =>
               (SoloAggiunte /\ VociNuove = VocePiattaAttesa(Cat)) ]_vars
    /\ []NessunaVoceDaTrattino

\* C6 (amended): a "-" row that immediately follows a category row and whose
\* amount differs from the category's by less than 0.01 (a difference of
\* exactly 0.01 excluded) produces zero subcategory entries: the category is
\* emitted as exactly one flat entry with its own amount and the "-" row
\* produces no entry.
C6_DashWithinTol ==
    /\ [][ (/\ pc = "emit" /\ i + 1 < Len(rows_data)
            /\ rows_data[i + 2].nome = Trattino
            /\ Abs(rows_data[i + 2].importo - Cat.importo) < Tol) =>
               (SoloAggiunte /\ VociNuove = VocePiattaAttesa(Cat)) ]_vars
    /\ []NessunaVoceDaTrattino

\* C6 witness: a category followed by a "-" row whose amount differs from
\* its own by a non-zero amount below the tolerance has been emitted flat
\* and the "-" row has been skipped.
C6_Witness ==
    /\ pc = "outer" /\ i >= 2 /\ esito = "terminatore"
    /\ rows_data[i].nome = Trattino /\ rows_data[i - 1].nome # Trattino
    /\ rows_data[i].importo # rows_data[i - 1].importo
    /\ Abs(rows_data[i].importo - rows_data[i - 1].importo) < Tol
    /\ risultati # <<>>
    /\ risultati[Len(risultati)].sottocategoria = Nessuna
    /\ origine[Len(origine)].riga = rows_data[i - 1].idx

\* the look-ahead row at j is a "-" row matching the category amount
TerminatoreAtJ ==
    /\ pc = "inner" /\ j < Len(rows_data)
    /\ rows_data[j + 1].nome = Trattino
    /\ Abs(rows_data[j + 1].importo - Cat.importo) < Tol

C8_NoRowDropped ==
    pc = "done" =>
        \A k \in 1..Len(rows_data) :
            rows_data[k].nome # Trattino =>
                \E m \in 1..Len(origine) :
                    \/ origine[m].riga = rows_data[k].idx
                    \/ origine[m].cat = rows_data[k].idx

\* C9: sign invariant. Every entry produced by reconstruct has kind
\* 'entrata' if and only if the amount of the category row it is tagged with
\* is >= 0, also for a subcategory entry whose own amount has the opposite
\* sign.
C9_SignInvariant ==
    \A m \in 1..Len(risultati) :
        (risultati[m].tipo = "entrata")
            <=> (RigaDi(origine[m].cat).importo >= 0)

\* C9 witness: the walk has finished with a subcategory entry of positive
\* amount classified 'uscita' under a category of negative amount.
C9_Witness ==
    /\ pc = "done"
    /\ \E m \in 1..Len(risultati) :
          /\ risultati[m].importo > 0 /\ risultati[m].tipo = "uscita"
          /\ risultati[m].sottocategoria # Nessuna
          /\ RigaDi(origine[m].cat).importo < 0

\* C11: order preservation. The entries returned by reconstruct are in
\* source-row order: if entry e1 precedes entry e2, the row that produced e1
\* precedes the row that produced e2 in the table, across categories and
\* within one category's subcategories; every entry carries the label and
\* the amount of the row that produced it.
C11_OrderPreservation ==
    /\ \A m \in 1..(Len(origine) - 1) :
          /\ origine[m].riga < origine[m + 1].riga
          /\ origine[m].cat <= origine[m + 1].cat
    /\ \A m \in 1..Len(risultati) :
          LET riga == RigaDi(origine[m].riga)
          IN /\ risultati[m].importo = riga.importo
             /\ risultati[m].categoria = RigaDi(origine[m].cat).nome
             /\ IF risultati[m].sottocategoria = Nessuna
                THEN origine[m].riga = origine[m].cat
                ELSE /\ origine[m].cat < origine[m].riga
                     /\ risultati[m].sottocategoria = riga.nome

\* C11 witness: the walk has returned two subcategory entries of one
\* category followed by an entry of a later category.
C11_Witness ==
    /\ pc = "done" /\ Len(risultati) >= 3
    /\ risultati[1].sottocategoria # Nessuna
    /\ risultati[2].sottocategoria # Nessuna
    /\ origine[1].cat = origine[2].cat
    /\ origine[3].cat > origine[2].riga

\* ======================================================= properties: main
\* some candidate sheet of the workbook fails the filter verification
FiltroKoInQualcheFoglio ==
    \E n \in 1..Len(wb) :
        /\ StartsWith(Lower(wb[n].nome), TPivot)
        /\ ~VerificaFiltroEscludi(wb[n].df).ok

\* C1: if the Filter Verifier returns ok=false for at least one sheet whose
\* name starts with 'pivot', the run ends with a failure exit: the step that
\* follows the verification of the last sheet is the exit with code 1, no
\* sheet is ever reconstructed and no output (detail table, summary table,
\* combined document) is ever produced.
C1_GateAborts ==
    /\ [](\/ /\ fase \in {"start", "verifica", "exit"}
             /\ dati_consolidati = <<>> /\ riepilogo_mensile = <<>>
             /\ files = <<>>
             /\ exit_code = (IF fase = "exit" THEN 1 ELSE -1)
          \/ ~FiltroKoInQualcheFoglio)
    /\ [][(/\ fase = "verifica" /\ sheet_idx >= Len(pivot_sheets)
           /\ FiltroKoInQualcheFoglio) =>
              (fase' = "exit" /\ exit_code' = 1) ]_vars

\* C1 witness: a workbook with one passing and one failing candidate sheet
\* has left with exit code 1 and nothing written.
C1_Witness ==
    /\ fase = "exit" /\ exit_code = 1 /\ files = <<>>
    /\ Len(pivot_sheets) = 2 /\ Len(errori) = 1
    /\ dati_consolidati = <<>>

\* the amount read from row idx (0-based) of a sheet
ImportoDiRiga(df, idx) ==
    LET row == df[idx + 1]
    IN IF Len(row) > 1 /\ NotNa(row[2]) /\ FloatOf(row[2]).ok
       THEN FloatOf(row[2]).v ELSE 0

FoglioDiNome(nome) == wb[CHOOSE n \in 1..Len(wb) : wb[n].nome = nome]

\* the amount of the category row the m-th detail entry is tagged with
ImportoCategoriaDi(m) ==
    ImportoDiRiga(FoglioDiNome(origine_dati[m].foglio).df, origine_dati[m].cat)

\* C10 (the claim as stated): every Entry in the accumulated detail
\* collection has kind income if and only if its own amount is >= 0.
C10_KindByOwnAmount ==
    \A m \in 1..Len(dati_consolidati) :
        (dati_consolidati[m].tipo = "entrata")
            <=> (dati_consolidati[m].importo >= 0)

\* C10 (amended): every Entry in the accumulated detail collection has kind
\* income if and only if the amount of the category row it is tagged with is
\* >= 0; for an entry with null subcategory that amount is its own, a
\* subcategory entry keeps its category's kind whatever its own sign.
C10_KindByCategoryAmount ==
    \A m \in 1..Len(dati_consolidati) :
        /\ (dati_consolidati[m].tipo = "entrata")
              <=> (ImportoCategoriaDi(m) >= 0)
        /\ dati_consolidati[m].sottocategoria = Nessuna =>
              ((dati_consolidati[m].tipo = "entrata")
                  <=> (dati_consolidati[m].importo >= 0))

\* C10 witness: the detail collection of a finished run holds a subcategory
\* entry of positive amount and kind 'uscita' and a flat entry.
C10_Witness ==
    /\ fase = "done"
    /\ \E m \in 1..Len(dati_consolidati) :
          /\ dati_consolidati[m].importo > 0
          /\ dati_consolidati[m].tipo = "uscita"
    /\ \E m \in 1..Len(dati_consolidati) :
          dati_consolidati[m].sottocategoria = Nessuna

\* ============================================ properties: header and rows
\* the rows (1-based) with a cell equal to 'categoria' or 'row labels',
\* whatever the case
RighePerNome ==
    {r \in 1..Len(sheet_df) :
        \E c \in 1..Len(sheet_df[r]) :
            /\ NotNa(sheet_df[r][c])
            /\ Lower(StrOf(sheet_df[r][c])) \in {TCategoria, TRowLabels}}

\* the rows (1-based) with a cell containing 'Sum of Importo'
RighePerImporto ==
    {r \in 1..Len(sheet_df) :
        \E c \in 1..Len(sheet_df[r]) :
            /\ NotNa(sheet_df[r][c])
            /\ Contains(TSumOfImporto, StrOf(sheet_df[r][c]))}

HeaderCercato == pc \notin {"header", "fermo"}
RigheRaccolte == pc \notin {"header", "raccogli", "fermo"}

\* every retained row lies below the header row
DatiSottoHeader ==
    RigheRaccolte => \A k \in 1..Len(rows_data) : rows_data[k].idx > hdr_row

\* C12 (the claim as stated): the header row is the topmost row that matches
\* either rule; a row matching only the value-column rule that lies above a
\* row matching the equality rule is the one chosen as data start boundary.
C12_HeaderTopmostEither ==
    /\ HeaderCercato =>
          IF RighePerNome \cup RighePerImporto = {} THEN hdr_row = -1
          ELSE hdr_row + 1 = Minimo(RighePerNome \cup RighePerImporto)
    /\ DatiSottoHeader

\* C12 (amended): the header row is the topmost row with a cell equal,
\* whatever the case, to 'categoria' or 'row labels' when the sheet has such
\* a row, also when a row matching only the value-column rule lies above it;
\* only when no row matches the equality rule it is the topmost row with a
\* cell containing 'Sum of Importo'; the retained rows all lie below it, and
\* without any matching row there is no header.
C12_HeaderLabelRuleFirst ==
    /\ HeaderCercato =>
          IF RighePerNome # {} THEN hdr_row + 1 = Minimo(RighePerNome)
          ELSE IF RighePerImporto # {}
               THEN hdr_row + 1 = Minimo(RighePerImporto)
          ELSE hdr_row = -1
    /\ DatiSottoHeader

\* C12 witness: a sheet whose first row matches only the value-column rule
\* and whose second row matches only the equality rule has been read with
\* the second row as header and a data row retained below it.
C12_Witness ==
    /\ pc = "done" /\ hdr_row = 1
    /\ 1 \in RighePerImporto \ RighePerNome
    /\ 2 \in RighePerNome \ RighePerImporto
    /\ risultati # <<>>

\* the rows (1-based) below the header whose label, stripped, is 'grand
\* total' whatever the case
RigheGrandTotal ==
    {r \in (hdr_row + 2)..Len(sheet_df) :
        /\ NotNa(sheet_df[r][1])
        /\ Lower(Strip(StrOf(sheet_df[r][1]))) = TGrandTotal}

\* C13: grand-total sentinel. The first row after the header whose label
\* equals 'grand total' case-insensitively ends row collection: its amount (0
\* when it is no number) is returned as grand_total and no row from it on is
\* retained or contributes to an entry; grand_total is null exactly when no
\* such row exists after the header.
C13_GrandTotalSentinel ==
    /\ (HeaderCercato /\ hdr_row = -1) =>
          (~gran_totale.presente /\ rows_data = <<>> /\ risultati = <<>>)
    /\ (RigheRaccolte /\ hdr_row # -1) =>
          /\ gran_totale.presente <=> (RigheGrandTotal # {})
          /\ RigheGrandTotal = {} => gran_totale = TotaleNone
          /\ RigheGrandTotal # {} =>
                /\ gran_totale.valore =
                       ImportoDiRiga(sheet_df, Minimo(RigheGrandTotal) - 1)
                /\ \A k \in 1..Len(rows_data) :
                       rows_data[k].idx < Minimo(RigheGrandTotal) - 1
                /\ \A m \in 1..Len(origine) :
                       /\ origine[m].riga < Minimo(RigheGrandTotal) - 1
                       /\ origine[m].cat < Minimo(RigheGrandTotal) - 1

\* C13 witness: a sheet with a data row, a grand-total row whose amount is no
\* number and a further data row has been reconstructed: grand_total is 0
\* and the only entry comes from the row above the grand total.
C13_Witness ==
    /\ pc = "done" /\ hdr_row = 0 /\ Len(sheet_df) = 4
    /\ RigheGrandTotal = {3}
    /\ sheet_df[3][2].t = "str"
    /\ gran_totale = Totale(0)
    /\ sheet_df[4][1] = Testo(NomeVoce)
    /\ Len(risultati) = 1 /\ origine[1].riga = 1

\* ================================================ properties: aggregation
\* the rows (1-based) of a sheet below its header whose label is 'grand total'
RigheGrandTotalDi(foglio) ==
    IF HeaderRow(foglio) = -1 THEN {}
    ELSE {r \in (HeaderRow(foglio) + 2)..Len(foglio) :
            /\ NotNa(foglio[r][1])
            /\ Lower(Strip(StrOf(foglio[r][1]))) = TGrandTotal}

\* the number of occurrences of x in a sequence
Conta(seq, x) == Cardinality({n \in 1..Len(seq) : seq[n] = x})

\* two sequences hold the same elements the same number of times
StessiElementi(a, b) ==
    /\ Len(a) = Len(b)
    /\ \A n \in 1..Len(a) : Conta(a, a[n]) = Conta(b, a[n])

\* the candidate sheet of the next iteration of elabora_tutti_i_pivot
FoglioCorrente == pivot_sheets[sheet_idx + 1]

\* the next iteration folds a sheet whose name carries a period
FoglioDaElaborare ==
    /\ fase = "elabora" /\ sheet_idx < Len(pivot_sheets)
    /\ PosizioniData(FoglioCorrente.nome) # {}

\* the summary appended by a step
NuovoRiepilogo == riepilogo_mensile'[Len(riepilogo_mensile')]

\* C14: balance policy. The PeriodSummary of a sheet has balance equal to the
\* sheet's grand_total whenever the sheet has a grand-total row, also when
\* that value disagrees with total_income + total_expense or is 0, and equal
\* to total_income + total_expense when the sheet has no grand-total row; the
\* summaries written are the summaries so computed.
C14_BalancePolicy ==
    /\ [][ FoglioDaElaborare =>
            /\ riepilogo_mensile' = Append(riepilogo_mensile, NuovoRiepilogo)
            /\ IF RigheGrandTotalDi(FoglioCorrente.df) # {}
               THEN NuovoRiepilogo.saldo =
                      ImportoDiRiga(FoglioCorrente.df,
                          Minimo(RigheGrandTotalDi(FoglioCorrente.df)) - 1)
               ELSE NuovoRiepilogo.saldo =
                      NuovoRiepilogo.totale_entrate
                          + NuovoRiepilogo.totale_uscite ]_vars
    /\ [](fase \in {"salvato", "done"} =>
            StessiElementi(files[1].riepilogo, riepilogo_mensile))

\* C14 witness: a finished run has written the summary of a sheet whose
\* grand total is 0 against totals that sum to something else, and the
\* summary of a sheet without grand-total row, whose balance is the sum of
\* its totals.
C14_Witness ==
    /\ fase = "done" /\ Len(files[1].riepilogo) = 2
    /\ Len(pivot_sheets) = 2
    /\ \E x, y \in 1..2 :
          /\ RigheGrandTotalDi(pivot_sheets[x].df) # {}
          /\ RigheGrandTotalDi(pivot_sheets[y].df) = {}
          /\ HeaderRow(pivot_sheets[y].df) # -1
    /\ \E a, b \in 1..2 :
          /\ files[1].riepilogo[a].saldo = 0
          /\ files[1].riepilogo[a].totale_entrate
                + files[1].riepilogo[a].totale_uscite # 0
          /\ files[1].riepilogo[b].saldo # 0
          /\ files[1].riepilogo[b].saldo =
                files[1].riepilogo[b].totale_entrate
                    + files[1].riepilogo[b].totale_uscite
          /\ files[1].riepilogo[b].totale_uscite < 0

\* a sequence last first
Rovescia(seq) == [n \in 1..Len(seq) |-> seq[Len(seq) + 1 - n]]

\* the period keys <<year, month>> of a sequence of summaries
ChiaviDi(seq) == [n \in 1..Len(seq) |-> <<seq[n].anno, seq[n].mese>>]

\* the period keys of the summaries a run writes for a workbook (lines
\* 261-278 and 347)
ChiaviScritte(book) ==
    LET conData == SelectSeq(SortedPivotSheets(book),
                       LAMBDA sh : EstraiMeseAnno(sh.nome).ok)
    IN ChiaviDi(OrdinaRiepilogo(
           [n \in 1..Len(conData) |->
               [data |-> DataStr(EstraiMeseAnno(conData[n].nome).mese,
                                 EstraiMeseAnno(conData[n].nome).anno),
                mese |-> EstraiMeseAnno(conData[n].nome).mese,
                anno |-> EstraiMeseAnno(conData[n].nome).anno]]))

\* <<year, month>> a is not after b
ChiaveNonDopo(a, b) == a[1] < b[1] \/ (a[1] = b[1] /\ a[2] <= b[2])

\* C15 (the claim as stated): period determinism. The final summary
\* collection is sorted ascending by (year, month) for every order in which
\* the sheets are enumerated, and the sheets enumerated in the opposite order
\* give the same sequence of period keys.
C15_PeriodDeterminism ==
    fase \in {"salvato", "done"} =>
        /\ \A a, b \in 1..Len(files[1].riepilogo) :
              a < b => ChiaveNonDopo(ChiaviDi(files[1].riepilogo)[a],
                                     ChiaviDi(files[1].riepilogo)[b])
        /\ ChiaviDi(files[1].riepilogo) = ChiaviScritte(Rovescia(wb))

\* the position of the first two-digit, hyphen, four-digit token of a name
PrimoToken(nome) == Minimo(PosizioniData(nome))

\* the entries appended by a step of the aggregation
NuoveVoci ==
    SubSeq(dati_consolidati', Len(dati_consolidati) + 1,
           Len(dati_consolidati'))

\* the next iteration meets a sheet whose name carries no period
FoglioSenzaData ==
    /\ fase = "elabora" /\ sheet_idx < Len(pivot_sheets)
    /\ PosizioniData(FoglioCorrente.nome) = {}

\* C16 (the claim as stated): period extraction and skipping. A candidate
\* sheet whose name contains a two-digit, hyphen, four-digit token yields the
\* period (year, month) of the first such token, with label MM/YYYY, on its
\* summary and on its entries; a candidate sheet whose name has no such token
\* is skipped and contributes neither a summary nor any entry.
C16_PeriodExtraction ==
    [][ /\ FoglioDaElaborare =>
            LET nome == FoglioCorrente.nome
                q == PrimoToken(nome)
                etichetta == SubSeq(nome, q, q + 1) \o <<"/">>
                                \o SubSeq(nome, q + 3, q + 6)
            IN /\ Len(riepilogo_mensile') = Len(riepilogo_mensile) + 1
               /\ NuovoRiepilogo.mese = DigitsVal(SubSeq(nome, q, q + 1))
               /\ NuovoRiepilogo.anno = DigitsVal(SubSeq(nome, q + 3, q + 6))
               /\ NuovoRiepilogo.data_label = etichetta
               /\ \A n \in 1..Len(NuoveVoci) :
                     /\ NuoveVoci[n].mese = NuovoRiepilogo.mese
                     /\ NuoveVoci[n].anno = NuovoRiepilogo.anno
                     /\ NuoveVoci[n].data_label = etichetta
        /\ FoglioSenzaData =>
            /\ riepilogo_mensile' = riepilogo_mensile
            /\ dati_consolidati' = dati_consolidati
            /\ sheet_idx' = sheet_idx + 1 ]_vars

\* C17 (the claim as stated): every PeriodKey carried by a summary or an
\* entry, accumulated or written, has a month in 1..12; a sheet whose name
\* carries a month token outside 1..12 never produces a summary or an entry.
C17_MonthInRange ==
    /\ \A n \in 1..Len(riepilogo_mensile) :
          riepilogo_mensile[n].mese \in 1..12
    /\ \A n \in 1..Len(dati_consolidati) :
          dati_consolidati[n].mese \in 1..12
    /\ \A f \in 1..Len(files) :
          /\ \A n \in 1..Len(files[f].riepilogo) :
                files[f].riepilogo[n].mese \in 1..12
          /\ \A n \in 1..Len(files[f].dettaglio) :
                files[f].dettaglio[n].mese \in 1..12

\* ================================================= properties: the filter
\* the cells <<row, column>> (1-based) of the first 5 rows of the sheet that
\* are not empty and whose text contains 'esclud' whatever the case
MarcatoriFinestra ==
    {rc \in (1..Len(sheet_df)) \X (1..2) :
        /\ rc[1] <= 5 /\ rc[2] <= Len(sheet_df[rc[1]])
        /\ NotNa(sheet_df[rc[1]][rc[2]])
        /\ Contains(Esclud, Lower(StrOf(sheet_df[rc[1]][rc[2]])))}

\* the marker cell found: the first one by row, then by column
MarcatoreTrovato ==
    LET trovati == MarcatoriFinestra
    IN CHOOSE rc \in trovati :
          \A q \in trovati :
              rc[1] < q[1] \/ (rc[1] = q[1] /\ rc[2] <= q[2])

\* the marker found is in the last column of its row
MarcatoreInUltimaColonna ==
    MarcatoreTrovato[2] = Len(sheet_df[MarcatoreTrovato[1]])

\* the cell to the right of the marker found
CellaAccanto == sheet_df[MarcatoreTrovato[1]][MarcatoreTrovato[2] + 1]

\* the verification of the sheet has returned with a marker found
VerificatoConMarcatore == pc = "fatto" /\ MarcatoriFinestra # {}

\* C18: Filter Verifier outcomes when a marker cell is found in the scanned
\* window: when the cell to its right equals '(blank)' case-insensitively
\* verify returns ok=true with no message; when it holds any other non-empty
\* value verify returns ok=false with the message that names that value.
C18_FilterOutcomes ==
    (VerificatoConMarcatore /\ ~MarcatoreInUltimaColonna
        /\ NotNa(CellaAccanto)) =>
        IF Lower(StrOf(CellaAccanto)) = Blank
        THEN ok /\ messaggio = MsgNone
        ELSE ~ok /\ messaggio = MsgImpostato(StrOf(CellaAccanto))

\* C18 witness: a sheet whose first marker has '(Blank)' beside it, and in a
\* later row the filter set to a value, has been verified ok.
C18_Witness ==
    /\ pc = "fatto" /\ ok /\ messaggio = MsgNone
    /\ MarcatoriFinestra # {}
    /\ StrOf(CellaAccanto) = TBlankMisto
    /\ \E r \in 1..Len(sheet_df) : sheet_df[r] = RigaFiltroKo


\* C19 (the claim as stated): Filter Verifier with a missing filter value.
\* When a marker cell is found and the cell to its right is absent, because
\* the marker is in the last column or because the adjacent cell is empty,
\* verify returns ok=false with the 'filter value not found' message and not
\* with the message that names a filter value.
C19_MissingFilterValue ==
    (VerificatoConMarcatore
        /\ (MarcatoreInUltimaColonna \/ ~NotNa(CellaAccanto))) =>
        (~ok /\ messaggio = MsgNonTrovato)

\* the marker cells of the whole sheet, whatever their row
MarcatoriOvunque ==
    {rc \in (1..Len(sheet_df)) \X (1..2) :
        /\ rc[2] <= Len(sheet_df[rc[1]])
        /\ NotNa(sheet_df[rc[1]][rc[2]])
        /\ Contains(Esclud, Lower(StrOf(sheet_df[rc[1]][rc[2]])))}

\* C20: Filter Verifier scan window. Only the first 5 rows (all rows when the
\* sheet has fewer) are inspected: a sheet with no marker cell in the
\* window, also one with a marker cell at row index 5 or later, yields
\* ok=true with the advisory message, which is not empty, and the outcome for
\* a longer sheet does not change when its sixth row is replaced by any
\* other row.
C20_ScanWindow ==
    pc = "fatto" =>
        /\ MarcatoriFinestra = {} =>
              (ok /\ messaggio = MsgCampoNonTrovato /\ messaggio # MsgNone)
        /\ LET finestra == SubSeq(sheet_df, 1,
                               IF Len(sheet_df) < 5 THEN Len(sheet_df) ELSE 5)
           IN \A altro \in RigheFiltro :
                 Len(sheet_df) > 5 =>
                    /\ ok = VerificaFiltroEscludi(
                                Append(finestra, altro)).ok
                    /\ messaggio = VerificaFiltroEscludi(
                                Append(finestra, altro)).messaggio

\* C20 witness: a sheet of six rows whose only marker cell is in the sixth
\* row, with the filter set to a value, has been verified ok with the
\* advisory message.
C20_Witness ==
    /\ pc = "fatto" /\ Len(sheet_df) = 6
    /\ sheet_df[6] = RigaFiltroKo
    /\ MarcatoriOvunque = {<<6, 1>>}
    /\ ok /\ messaggio = MsgCampoNonTrovato

\* ======================================================= properties: gate
\* the candidate sheets of the workbook, in workbook order
Candidati ==
    SelectSeq(wb, LAMBDA sh : StartsWith(Lower(sh.nome), TPivot))

\* the candidate sheets for which verify returns ok=false
CandidatiKo ==
    SelectSeq(Candidati, LAMBDA sh : ~VerificaFiltroEscludi(sh.df).ok)

\* the candidate sheets for which verify returns ok=true with a message
CandidatiAvviso ==
    SelectSeq(Candidati,
        LAMBDA sh : /\ VerificaFiltroEscludi(sh.df).ok
                    /\ VerificaFiltroEscludi(sh.df).messaggio # MsgNone)

\* the loop of the gate is over and the gate has not decided yet
GateDaDecidere == fase = "verifica" /\ sheet_idx >= Len(pivot_sheets)

\* C21: gate aggregation. The gate verifies every candidate sheet and
\* collects every failing sheet into the error list before deciding; a
\* failure on one sheet does not stop the verification of the remaining
\* sheets, and advisory results alone never make the gate fail.
C21_GateAggregation ==
    /\ [](GateDaDecidere =>
            LET ko == CandidatiKo
                avvisi == CandidatiAvviso
            IN /\ Len(errori) = Len(ko)
               /\ \A n \in 1..Len(errori) :
                     /\ errori[n].foglio = ko[n].nome
                     /\ errori[n].messaggio =
                           VerificaFiltroEscludi(ko[n].df).messaggio
               /\ Len(warnings) = Len(avvisi)
               /\ \A n \in 1..Len(warnings) :
                     warnings[n].foglio = avvisi[n].nome)
    /\ [](fase = "verifica" => sheet_idx <= Len(pivot_sheets))
    /\ [](fase = "exit" => CandidatiKo # <<>>)
    /\ [][ GateDaDecidere =>
              IF CandidatiKo = <<>> THEN fase' = "elabora"
              ELSE fase' = "exit" /\ exit_code' = 1 ]_vars
    /\ [][ (fase = "verifica" /\ sheet_idx < Len(pivot_sheets)) =>
              (fase' = "verifica" /\ sheet_idx' = sheet_idx + 1) ]_vars
    /\ [][ fase # "verifica" =>
              (errori' = errori /\ warnings' = warnings) ]_vars

\* C21 witness: a workbook whose two candidate sheets both fail has left the
\* gate with both sheets in the error list.
C21_Witness ==
    /\ fase = "exit" /\ Len(pivot_sheets) = 2 /\ Len(errori) = 2
    /\ errori[1].foglio # errori[2].foglio

\* a workbook with one candidate sheet without the filter field and no
\* failing sheet has gone past the gate with the advisory recorded
C21_WitnessAvviso ==
    /\ fase = "done" /\ errori = <<>> /\ warnings # <<>>
    /\ files # <<>>

\* ================================================ properties: no header
\* no row of the sheet matches either header rule
SenzaHeader == RighePerNome = {} /\ RighePerImporto = {}

\* C22: a table with no recognizable header row makes reconstruct return an
\* empty entry sequence and a null grand_total, in one step from the header
\* search, with no row retained and no walk started.
C22_NoHeaderEmpty ==
    /\ [](HeaderCercato /\ SenzaHeader =>
            /\ pc = "done" /\ hdr_row = -1
            /\ risultati = <<>> /\ origine = <<>>
            /\ gran_totale = TotaleNone /\ rows_data = <<>>)
    /\ [][ (pc = "header" /\ SenzaHeader) => pc' = "done" ]_vars

\* C22 witness: a sheet without header that holds a data row and a
\* grand-total row with an amount has been reconstructed: nothing is
\* returned and grand_total is null.
C22_Witness ==
    /\ pc = "done" /\ SenzaHeader /\ Len(sheet_df) >= 2
    /\ \E r \in 1..Len(sheet_df) : sheet_df[r][1] = Testo(NomeVoce)
    /\ \E r \in 1..Len(sheet_df) :
          /\ sheet_df[r][1] = Testo(TGrandTotalCell)
          /\ sheet_df[r][2] = Numero(3 * UnitaPerUno)
    /\ risultati = <<>> /\ gran_totale = TotaleNone

\* ============================================== properties: determinism
\* the sheets elabora_tutti_i_pivot has folded so far, in the order of their
\* summaries
FogliElaborati ==
    IF fase \in {"elabora", "salvato", "done"}
    THEN SelectSeq(SubSeq(pivot_sheets, 1, sheet_idx),
                   LAMBDA sh : PosizioniData(sh.nome) # {})
    ELSE <<>>

\* the positions in the detail collection of the entries of a sheet
PosizioniVoci(nome) ==
    {m \in 1..Len(dati_consolidati) : origine_dati[m].foglio = nome}

\* what reconstruct returned for a sheet, as the run kept it: the k-th entry
\* of the sheet without its period, and the amounts of the n-th summary
VoceRestituita(nome, k) ==
    LET m == CHOOSE x \in PosizioniVoci(nome) :
                Cardinality({y \in PosizioniVoci(nome) : y <= x}) = k
    IN <<dati_consolidati[m].categoria, dati_consolidati[m].sottocategoria,
         dati_consolidati[m].importo, dati_consolidati[m].tipo,
         origine_dati[m].riga, origine_dati[m].cat>>
TotaliRestituiti(n) ==
    <<riepilogo_mensile[n].totale_entrate, riepilogo_mensile[n].totale_uscite,
      riepilogo_mensile[n].saldo>>

RECURSIVE HaOltre(_)
HaOltre(w) ==
    IF w.pc = "done" THEN FALSE
    ELSE GFineOltre(w) \/ HaOltre(PassoWalk(w))

\* some row below the header (0-based hdr) that is retained or is the grand
\* total has an amount cell that is no number and is read as 0
ImportoIllegibile(foglio, hdr) ==
    \E r \in (hdr + 2)..Len(foglio) :
        /\ NotNa(foglio[r][1])
        /\ Lower(Strip(StrOf(foglio[r][1]))) \notin {<<>>, TNan, Blank}
        /\ \A g \in (hdr + 2)..(r - 1) :
              ~(NotNa(foglio[g][1])
                /\ Lower(Strip(StrOf(foglio[g][1]))) = TGrandTotal)
        /\ Len(foglio[r]) > 1 /\ foglio[r][2].t = "str"
        /\ ~FloatOf(foglio[r][2]).ok

\* the reconstruction of a sheet degrades its result: no header, an amount
\* that is no number, or an overshoot in the partitioning
Degradato(foglio) ==
    \/ HeaderRow(foglio) = -1
    \/ ImportoIllegibile(foglio, HeaderRow(foglio))
    \/ HaOltre(StatoIniziale(
           Raccogli(foglio, HeaderRow(foglio) + 1, <<>>).rows_data))

\* C24 (the claim as stated): each time reconstruction degrades a result
\* (header not found, amount unparseable and replaced by 0, overshoot during
\* group partitioning) no fault is raised, the run goes on, and a warning
\* record for that sheet is produced.
C24_DegradationAdvisory ==
    [][ (FoglioDaElaborare /\ Degradato(FoglioCorrente.df)) =>
            /\ fase' = "elabora" /\ sheet_idx' = sheet_idx + 1
            /\ errori' = errori
            /\ Len(warnings') = Len(warnings) + 1
            /\ warnings'[Len(warnings')].foglio = FoglioCorrente.nome ]_vars

\* ============================================ properties: continue rule
\* the running sum once the look-ahead row at j is added
SommaConJ == somma_sotto + rows_data[j + 1].importo

\* the look-ahead row at j is added and the sum does not match
AggiuntaSenzaCoincidenza ==
    /\ pc = "inner" /\ j < Len(rows_data)
    /\ ~TerminatoreAtJ
    /\ Abs(SommaConJ - Cat.importo) >= Tol

\* C25: continue rule and tolerance. After adding a look-ahead row that does
\* not make the running sum match the category amount, accumulation
\* continues if and only if the absolute value of the running sum does not
\* exceed the absolute value of the category amount by more than 0.01; the
\* test is absolute and compares absolute values, so a row whose sign is
\* opposite to the category's is accumulated whenever that bound holds.
C25_ContinueRule ==
    [][ AggiuntaSenzaCoincidenza =>
          IF Abs(SommaConJ) - Abs(Cat.importo) <= Tol
          THEN /\ pc' = "inner" /\ j' = j + 1 /\ i' = i
               /\ somma_sotto' = SommaConJ
               /\ sottocategorie' = Append(sottocategorie, rows_data[j + 1])
          ELSE /\ pc' = "emit" /\ j' = j /\ i' = i
               /\ sottocategorie' = sottocategorie ]_vars

\* C25 witness: a row of sign opposite to the category's has been
\* accumulated with the running sum exactly 0.01 beyond the category amount
\* in absolute value, and the look-ahead goes on.
C25_Witness ==
    /\ pc = "inner" /\ Len(sottocategorie) = 1
    /\ somma_sotto * Cat.importo < 0
    /\ Abs(somma_sotto) = Abs(Cat.importo) + Tol
    /\ j = i + 2 /\ j < Len(rows_data)

\* ============================================ properties: period totals
\* the summary elabora_tutti_i_pivot computes from the entries returned by
\* the walk (lines 288-324), for a sheet of January 2024 without grand total
RiepilogoDelWalk == Riepilogo(1, 2024, risultati, TotaleNone)

\* C26 (the claim as stated): sign of the period totals. In every emitted
\* PeriodSummary total_income is >= 0 and total_expense is <= 0, for every
\* table the reconstructor accepts.
C26_TotalsSign ==
    pc = "done" =>
        /\ RiepilogoDelWalk.totale_entrate >= 0
        /\ RiepilogoDelWalk.totale_uscite <= 0

\* ============================================== properties: termination
\* a variant of the walk: the rows the category cursor has still to pass,
\* then the position within the iteration, then the rows the look-ahead
\* cursor has still to pass
Misura ==
    LET n == Len(rows_data)
    IN IF pc = "done" THEN 0
       ELSE (n - i) * (n + 4) + 1 +
            (IF pc = "outer" THEN n + 3
             ELSE IF pc = "inner" THEN n + 2 - j
             ELSE 0)

\* some step of the walk can be taken
PassoPossibile ==
    \/ GSaltaTrattino(W) \/ GIniziaRicerca(W) \/ GRitorna(W)
    \/ GFineRighe(W) \/ GFineTerminatore(W) \/ GFineCoincide(W)
    \/ GAccumula(W) \/ GFineOltre(W) \/ GEmettiSotto(W) \/ GEmettiPiatta(W)

\* C27: the group-partitioning walk terminates on every finite list of
\* retained rows: each iteration of the outer loop strictly advances the
\* category cursor (by 1, or to the look-ahead cursor, which is then strictly
\* greater) and each iteration of the look-ahead loop either advances the
\* look-ahead cursor or exits; the cursors stay within the list, every step
\* decreases a non-negative variant and the walk never stops before its
\* return.
C27_WalkTerminates ==
    /\ [](/\ i \in 0..Len(rows_data)
          /\ pc \in {"inner", "emit"} =>
                (i < Len(rows_data) /\ j \in (i + 1)..Len(rows_data))
          /\ Misura >= 0
          /\ pc # "done" => PassoPossibile)
    /\ [][ /\ Misura' < Misura
           /\ rows_data' = rows_data
           /\ (pc = "outer" /\ pc' = "outer") => i' = i + 1
           /\ (pc = "outer" /\ pc' = "inner") => (i' = i /\ j' = i + 1)
           /\ pc = "inner" =>
                 \/ pc' = "inner" /\ j' = j + 1 /\ i' = i
                 \/ pc' = "emit" /\ j' \in {j, j + 1} /\ i' = i
           /\ pc = "emit" =>
                 /\ pc' = "outer" /\ i' > i
                 /\ IF sottocategorie = <<>> THEN i' = i + 1 ELSE i' = j ]_vars

\* C27 witness: the walk of a list of four rows has returned after skipping
\* a "-" row and moving the category cursor to the look-ahead cursor, past
\* two subcategories.
C27_Witness ==
    /\ pc = "done" /\ Len(rows_data) = 4 /\ i = 4 /\ j = 4
    /\ rows_data[1].nome = Trattino
    /\ Len(sottocategorie) = 2 /\ Len(risultati) = 2
    /\ origine[1].cat = rows_data[2].idx

\* ===================================================== properties: roles
\* the sheet indices of the rows the category cursor has passed
RighePassate == {rows_data[k].idx : k \in 1..i}

\* the sheet indices of a sequence of rows
IndiciDi(rows) == {rows[k].idx : k \in 1..Len(rows)}

\* C28: each retained row is used in exactly one role during partitioning,
\* as a category, as a subcategory of one category, or as a skipped "-" row,
\* and is the source of at most one entry: the rows consumed as the
\* subcategories of a category are the rows between it and the next row
\* examined as a category, no row's amount is emitted twice, no row is both
\* a flat category entry and a subcategory entry, a category with
\* subcategory entries is the source of no entry, and the number of entries
\* never exceeds the number of retained rows.
C28_OneRolePerRow ==
    /\ [](/\ Len(risultati) <= i /\ Len(risultati) <= Len(rows_data)
          /\ \A m \in 1..Len(origine) :
                /\ origine[m].riga \in RighePassate
                /\ origine[m].cat \in RighePassate
                /\ \A n \in 1..Len(origine) :
                      /\ (m # n => origine[m].riga # origine[n].riga)
                      /\ (origine[m].cat # origine[m].riga =>
                             origine[n].riga # origine[m].cat)
                      /\ (origine[n].riga = origine[m].riga =>
                             risultati[n] = risultati[m])
          /\ pc \in {"inner", "emit"} =>
                /\ Cat.nome # Trattino
                /\ IndiciDi(sottocategorie) \cap RighePassate = {}
                /\ Cat.idx \notin IndiciDi(sottocategorie))
    /\ [][ /\ (pc = "outer" /\ pc' = "outer") =>
                (Cat.nome = Trattino /\ risultati' = risultati)
           /\ pc = "emit" =>
                IF sottocategorie = <<>>
                THEN /\ i' = i + 1
                     /\ Len(VociNuove) = 1 /\ VociNuove[1][4] = Cat.idx
                ELSE /\ i' = j
                     /\ SubSeq(rows_data, i + 2, j) = sottocategorie \o
                           (IF esito = "terminatore" THEN <<rows_data[j]>>
                            ELSE <<>>)
                     /\ Len(VociNuove) <= Len(sottocategorie)
                     /\ \A k \in 1..Len(VociNuove) :
                           /\ VociNuove[k][4] \in IndiciDi(sottocategorie)
                           /\ VociNuove[k][4] # Cat.idx
                           /\ VociNuove[k][5] = Cat.idx ]_vars

\* C28 witness: a walk of four rows has returned with a skipped "-" row, a
\* category whose one subcategory gave one entry and a category emitted
\* flat: two entries from four rows.
C28_Witness ==
    /\ pc = "done" /\ Len(rows_data) = 4 /\ Len(risultati) = 2
    /\ rows_data[1].nome = Trattino
    /\ risultati[1].sottocategoria # Nessuna
    /\ origine[1].cat = rows_data[2].idx /\ origine[1].riga = rows_data[3].idx
    /\ risultati[2].sottocategoria = Nessuna
    /\ origine[2].riga = rows_data[4].idx

\* ============================================ properties: period keys
\* no two summaries of a sequence carry the same <<year, month>>
ChiaviDistinte(seq) ==
    \A a, b \in 1..Len(seq) :
        a # b => <<seq[a].anno, seq[a].mese>> # <<seq[b].anno, seq[b].mese>>

\* C29 (the claim as stated): period uniqueness. The summary collection,
\* accumulated or written, holds at most one PeriodSummary per PeriodKey,
\* also when two candidate sheet names embed the same MM-YYYY token.
C29_PeriodUniqueness ==
    /\ ChiaviDistinte(riepilogo_mensile)
    /\ \A f \in 1..Len(files) : ChiaviDistinte(files[f].riepilogo)

\* ==================================== properties: sheets without header
\* no row of a sheet has a cell equal to 'categoria' or 'row labels',
\* whatever the case, or containing 'Sum of Importo'
FoglioSenzaHeader(foglio) ==
    \A r \in 1..Len(foglio) : \A c \in 1..Len(foglio[r]) :
        \/ ~NotNa(foglio[r][c])
        \/ /\ Lower(StrOf(foglio[r][c])) \notin {TCategoria, TRowLabels}
           /\ ~Contains(TSumOfImporto, StrOf(foglio[r][c]))

\* the summary of a period with no flows: a sheet of the same name with the
\* header row only
RiepilogoSenzaFlussi(nome) ==
    LET ma == EstraiMeseAnno(nome)
        vuoto == EstraiDatiCategoria(<<RigaHeader>>)
    IN Riepilogo(ma.mese, ma.anno, vuoto.risultati, vuoto.grand_total)

\* C30: a candidate sheet with a valid period token but no recognizable
\* header still contributes exactly one PeriodSummary, with total_income 0,
\* total_expense 0 and balance 0, and contributes no entries; the summary is
\* the one of a period with no flows, and it is among the summaries written.
C30_NoHeaderZeroSummary ==
    /\ [][ (FoglioDaElaborare /\ FoglioSenzaHeader(FoglioCorrente.df)) =>
              /\ Len(riepilogo_mensile') = Len(riepilogo_mensile) + 1
              /\ riepilogo_mensile' = Append(riepilogo_mensile, NuovoRiepilogo)
              /\ NuovoRiepilogo.totale_entrate = 0
              /\ NuovoRiepilogo.totale_uscite = 0
              /\ NuovoRiepilogo.saldo = 0
              /\ NuovoRiepilogo = RiepilogoSenzaFlussi(FoglioCorrente.nome)
              /\ dati_consolidati' = dati_consolidati
              /\ fase' = "elabora" /\ sheet_idx' = sheet_idx + 1 ]_vars
    /\ [](fase \in {"salvato", "done"} =>
            /\ Len(files[1].riepilogo) = Len(FogliElaborati)
            /\ \A n \in 1..Len(FogliElaborati) :
                  FoglioSenzaHeader(FogliElaborati[n].df) =>
                     /\ PosizioniVoci(FogliElaborati[n].nome) = {}
                     /\ \E m \in 1..Len(files[1].riepilogo) :
                           files[1].riepilogo[m] =
                              RiepilogoSenzaFlussi(FogliElaborati[n].nome))

\* C30 witness: a finished run over a sheet without header, which holds data
\* rows, and a sheet with header has written two summaries, the one of the
\* sheet without header with three zeros, and only the entries of the other
\* sheet.
C30_Witness ==
    /\ fase = "done" /\ Len(FogliElaborati) = 2
    /\ \E a, b \in 1..2 :
          /\ FoglioSenzaHeader(FogliElaborati[a].df)
          /\ Len(FogliElaborati[a].df) >= 4
          /\ ~FoglioSenzaHeader(FogliElaborati[b].df)
          /\ riepilogo_mensile[a].totale_entrate = 0
          /\ riepilogo_mensile[a].totale_uscite = 0
          /\ riepilogo_mensile[a].saldo = 0
          /\ riepilogo_mensile[b].saldo # 0
          /\ PosizioniVoci(FogliElaborati[b].nome) = 1..Len(dati_consolidati)
    /\ dati_consolidati # <<>> /\ Len(files[1].riepilogo) = 2

====
